---- MODULE Spec2Model ----
(***************************************************************************)
(* Agent runtime of tegg: the record store (FileAgentStore) and the seven  *)
(* default handlers installed by enhanceAgentController, as a state        *)
(* machine.  One step is one JavaScript continuation together with the     *)
(* store I/O whose completion resumes it: a handler only gives up control  *)
(* at an await, and every store operation is one or two awaits             *)
(* (updateRun = getRun + writeFile, appendMessages = getThread +           *)
(* writeFile).                                                             *)
(*                                                                         *)
(* Run and thread ids are random UUIDs made by the store.  A caller can    *)
(* only name an id that a response or an SSE frame has shown it            *)
(* (`published`), or an id that names nothing.                             *)
(***************************************************************************)
EXTENDS Integers, Sequences, FiniteSets, TLC

\* ------------------------------------------------------------------ bounds
MaxRuns == 1          \* *Run calls (each creates at most one run)
MaxThreads == 1       \* createThread calls
MaxCancels == 2       \* cancelRun calls
MaxChunks == 2        \* chunks one execRun generator yields
MaxLiveCancels == 1   \* cancelRun calls under LiveSpec
MaxPairRuns == 2      \* *Run calls under PairSpec
MaxCalls == 1
MaxSegs == 3
MaxPathCalls == 1
MaxWriters == 2       \* concurrent writeFile calls on one record (FileSpec)
MaxReaders == 2       \* concurrent readFile calls on that record
MaxUuids == 2         \* values crypto.randomUUID() can return
MaxEnhances == 2
MaxInits == 2         \* getThread, getRun and direct store calls (StoreSpec)

RunIds == 1..MaxRuns
CancelIds == 1..MaxCancels
\* thread ids: the thread auto-created by call r, then the explicit ones
AutoThread(r) == r
AutoThreads == IF MaxRuns > MaxPairRuns THEN MaxRuns ELSE MaxPairRuns
ExplicitThreads == (AutoThreads + 1)..(AutoThreads + MaxThreads)
NoThreadId == 0                              \* input.thread_id absent
NopeThread == AutoThreads + MaxThreads + 1   \* an id that names no thread
NopeRun == AutoThreads + 1                   \* an id that names no run

VARIABLES
  threads,       \* store: thread id -> ThreadRecord (threads/<id>.json)
  runs,          \* store: run id -> RunRecord (runs/<id>.json)
  h,             \* per *Run call: the handler's position and locals
  sse,           \* per streamRun call: the raw response and its locals
  aborted,       \* per *Run call: abortController.signal.aborted
  runningTasks,  \* this.__runningTasks (its key set)
  cancels,       \* per cancelRun call: position and locals
  published,     \* run ids a client has been shown
  nThreads,      \* createThread calls made so far
  now,           \* Math.floor(Date.now() / 1000)
  replies,       \* what createThread, getThread and getRun calls returned
  disk,          \* the files under dataDir and the accesses made to them
  ctl            \* the controller class, its instance and their lifecycle

vars == <<threads, runs, h, sse, aborted, runningTasks, cancels, published,
          nThreads, now, replies, disk, ctl>>

\* ------------------------------------------------------------- data model
Unset == <<>>                  \* an optional field that is undefined
Some(v) == <<v>>
Opt0(o) == IF o = Unset THEN 0 ELSE o[1]      \* o ?? 0

TERMINAL_RUN_STATUSES == {"completed", "failed", "cancelled", "expired"}

TextBlock(s) == [type |-> "text", text |-> [value |-> s, annotations |-> <<>>]]

StrContent(s) == [kind |-> "string", value |-> s, parts |-> <<>>]
ArrContent(ps) == [kind |-> "array", value |-> "", parts |-> ps]
Part(ty, s) == [type |-> ty, text |-> s]

RECURSIVE FilterText(_)
FilterText(ps) ==
  IF ps = <<>> THEN <<>>
  ELSE IF Head(ps).type = "text"
       THEN <<TextBlock(Head(ps).text)>> \o FilterText(Tail(ps))
       ELSE FilterText(Tail(ps))

toContentBlocksKeepAll(msg) ==
  IF msg = Unset THEN <<>>
  ELSE LET content == msg[1].content IN
       IF content.kind = "string" THEN <<TextBlock(content.value)>>
       ELSE [i \in 1..Len(content.parts) |-> TextBlock(content.parts[i].text)]

\* msg is the chunk's optional message field
toContentBlocks(msg) ==
  IF msg = Unset THEN <<>>
  ELSE LET content == msg[1].content IN
       IF content.kind = "string" THEN <<TextBlock(content.value)>>
       ELSE IF content.kind = "array" THEN FilterText(content.parts)
       ELSE <<>>

toMessageObjectKeepRole(msg, runId) ==
  [object |-> "thread.message", run_id |-> runId, thread_id |-> 0,
   role |-> msg[1].role, status |-> "completed",
   content |-> toContentBlocks(msg)]

toMessageObject(msg, runId) ==
  [object |-> "thread.message", run_id |-> runId, thread_id |-> 0,
   role |-> "assistant", status |-> "completed",
   content |-> toContentBlocks(msg)]

RECURSIVE ExtractOutput(_, _)
ExtractOutput(messages, runId) ==
  IF messages = <<>> THEN <<>>
  ELSE (IF Head(messages).message # Unset
        THEN <<toMessageObject(Head(messages).message, runId)>>
        ELSE <<>>) \o ExtractOutput(Tail(messages), runId)

RECURSIVE SumPrompt(_)
SumPrompt(messages) ==
  IF messages = <<>> THEN 0
  ELSE (IF Head(messages).usage # Unset
        THEN Opt0(Head(messages).usage[1].prompt_tokens) ELSE 0)
       + SumPrompt(Tail(messages))

RECURSIVE SumCompletion(_)
SumCompletion(messages) ==
  IF messages = <<>> THEN 0
  ELSE (IF Head(messages).usage # Unset
        THEN Opt0(Head(messages).usage[1].completion_tokens) ELSE 0)
       + SumCompletion(Tail(messages))

MakeUsageTotalPrompt(p, c) ==
  [prompt_tokens |-> p, completion_tokens |-> c, total_tokens |-> p]

MakeUsage(p, c) ==
  [prompt_tokens |-> p, completion_tokens |-> c, total_tokens |-> p + c]

extractFromStreamMessagesNoUsage(messages, runId) ==
  [output |-> ExtractOutput(messages, runId), usage |-> Unset]

extractFromStreamMessages(messages, runId) ==
  [output |-> ExtractOutput(messages, runId),
   usage |-> IF \E i \in 1..Len(messages) : messages[i].usage # Unset
             THEN Some(MakeUsage(SumPrompt(messages), SumCompletion(messages)))
             ELSE Unset]

RECURSIVE PartBlocks(_)
PartBlocks(ps) ==
  IF ps = <<>> THEN <<>>
  ELSE <<TextBlock(Head(ps).text)>> \o PartBlocks(Tail(ps))

InputMessageObject(m, threadId) ==
  [object |-> "thread.message", run_id |-> 0, thread_id |-> threadId,
   role |-> m.role, status |-> "completed",
   content |-> IF m.content.kind = "string"
               THEN <<TextBlock(m.content.value)>>
               ELSE PartBlocks(m.content.parts)]

RECURSIVE toInputKeepSystem(_, _)
toInputKeepSystem(messages, threadId) ==
  IF messages = <<>> THEN <<>>
  ELSE <<InputMessageObject(Head(messages), threadId)>>
       \o toInputKeepSystem(Tail(messages), threadId)

RECURSIVE toInputMessageObjects(_, _)
toInputMessageObjects(messages, threadId) ==
  IF messages = <<>> THEN <<>>
  ELSE (IF Head(messages).role # "system"
        THEN <<InputMessageObject(Head(messages), threadId)>>
        ELSE <<>>) \o toInputMessageObjects(Tail(messages), threadId)

\* ------------------------------------------------------------ the store
EmptyObject == "{}"            \* the object {} (no metadata)
OrEmpty(o) == IF o = Unset THEN EmptyObject ELSE o[1]      \* o ?? {}

\* FileAgentStore.createThread(metadata): the record it writes
NewThread(threadId, metadata, t) ==
  [id |-> threadId, object |-> "thread", messages |-> <<>>,
   metadata |-> OrEmpty(metadata), created_at |-> t]

NewRun(runId, input, threadId, config, metadata, t) ==
  [id |-> runId, object |-> "thread.run", thread_id |-> threadId,
   status |-> "queued", input |-> input, output |-> Unset,
   last_error |-> Unset, usage |-> Unset, config |-> config,
   metadata |-> metadata, created_at |-> t, started_at |-> 0,
   completed_at |-> 0, cancelled_at |-> 0, failed_at |-> 0]

\* Object.assign(run, updates)
AssignLosingInput(run, updates) ==
  [f \in DOMAIN run |->
     IF f \in DOMAIN updates THEN updates[f]
     ELSE IF f = "input" THEN <<>> ELSE run[f]]

Assign(run, updates) ==
  [f \in DOMAIN run |-> IF f \in DOMAIN updates THEN updates[f] ELSE run[f]]

ThreadExists(t) == t \in DOMAIN threads
RunExists(r) == r \in DOMAIN runs

InProgressUpdateClearsMetadata(t) ==
  [status |-> "in_progress", started_at |-> t, metadata |-> Unset]
InProgressUpdate(t) == [status |-> "in_progress", started_at |-> t]
CompletedUpdate(output, usage, t) ==
  [status |-> "completed", output |-> Some(output), usage |-> usage,
   completed_at |-> t]
FailedUpdateNoError(msg, t) == [status |-> "failed", failed_at |-> t]
FailedUpdate(msg, t) ==
  [status |-> "failed",
   last_error |-> Some([code |-> "EXEC_ERROR", message |-> msg]),
   failed_at |-> t]
CancelledUpdateWrongStamp(t) == [status |-> "cancelled", completed_at |-> t]
CancelledUpdate(t) == [status |-> "cancelled", cancelled_at |-> t]


\* ------------------------------------------------ inputs of the handlers
UserHi == [role |-> "user", content |-> StrContent("Hi")]
SystemMsg == [role |-> "system", content |-> StrContent("Be brief")]
AssistantParts ==
  [role |-> "assistant",
   content |-> ArrContent(<<Part("text", "a"), Part("text", "b")>>)]

\* input.input.messages of the calls
Inputs == {<<AssistantParts, SystemMsg, UserHi>>}
\* input.metadata of the calls
Metadatas == {Some("u1")}

ChunkMsg(content) == [role |-> "assistant", content |-> content]
Chunk(msg, usage) == [message |-> msg, usage |-> usage]
ChunkUsage(p, c) == [prompt_tokens |-> p, completion_tokens |-> c]

\* what one execRun generator may yield
Chunks ==
  {Chunk(Some(ChunkMsg(ArrContent(<<Part("text", "Hello")>>))),
         Some(ChunkUsage(Some(10), Some(5))))}

Kinds == {"sync", "async", "stream"}

\* the wider inputs and chunks of WideSpec: an empty input, an input of
\* system messages only; chunks with a string message under a foreign
\* role, with usage only (one token count missing), with nothing, and with
\* a message that has no text part
WideInputs ==
  {<<>>, <<UserHi>>, <<SystemMsg>>, <<AssistantParts, SystemMsg, UserHi>>}

WideChunks ==
  Chunks \cup
  {Chunk(Some([role |-> "system", content |-> StrContent("ok")]), Unset),
   Chunk(Unset, Some(ChunkUsage(Some(3), Unset))),
   Chunk(Unset, Unset),
   Chunk(Some(ChunkMsg(ArrContent(<<Part("image", "x")>>))), Unset)}

\* ------------------------------------------------- handler bookkeeping
\* yieldedChunks, discarded and wroteCompleted are history: every chunk
\* execRun has yielded to the call's loop, whether the loop left by its
\* abort check, which discards the chunk it has just received, and whether
\* the call's updateRun(completed) has written the record
EmptyRun == NewRun(0, <<>>, 0, Unset, Unset, 0)

NoResult == [type |-> "none"]
Raised(msg) == [type |-> "raised", message |-> msg]
Returned(run) == [type |-> "run", run |-> run]

IdleCall ==
  [kind |-> "none", pc |-> "idle", input |-> <<>>, thread_id |-> NoThreadId,
   config |-> Unset, metadata |-> Unset, threadId |-> NoThreadId,
   created_at |-> 0, snap |-> EmptyRun, tsnap |-> <<>>,
   streamMessages |-> <<>>, yielded |-> 0, output |-> <<>>, usage |-> Unset,
   err |-> "", startedAt |-> 0, stamp |-> 0, result |-> NoResult,
   yieldedChunks |-> <<>>, discarded |-> FALSE, wroteCompleted |-> FALSE]

\* the RunObject the handlers project (absent fields are Unset / 0)
RunObject(id, created, threadId, status, metadata) ==
  [id |-> id, object |-> "thread.run", created_at |-> created,
   thread_id |-> threadId, status |-> status, metadata |-> metadata,
   started_at |-> 0, completed_at |-> 0, cancelled_at |-> 0, failed_at |-> 0,
   output |-> Unset, usage |-> Unset, last_error |-> Unset]

NoMsgObj == [object |-> "thread.message", run_id |-> 0, thread_id |-> 0,
             role |-> "assistant", status |-> "in_progress", content |-> <<>>]

IdleSse ==
  [headers |-> FALSE, frames |-> <<>>, ended |-> FALSE,
   accumulatedContent |-> <<>>, promptTokens |-> 0, completionTokens |-> 0,
   hasUsage |-> FALSE, runObj |-> RunObject(0, 0, 0, "", Unset)]

\* statusAtCall and awaited are history: the stored status when cancelRun
\* was called, and whether it found a registered task and awaited it
IdleCancel == [pc |-> "idle", run |-> 0, snap |-> EmptyRun,
               cancelledAt |-> 0, result |-> NoResult,
               statusAtCall |-> "", awaited |-> FALSE]

Frame(event, data) == [event |-> event, data |-> data]

IoError == "EIO"                 \* an I/O failure below the store
ExecError == "exec failed"       \* err.message of an error execRun raised
\* the store's error for an id that names no record (lines 99, 132)
NotFound(entity, id) == entity \o " " \o ToString(id) \o " not found"
ThreadNotFound(id) == NotFound("Thread", id)
RunNotFound(id) == NotFound("Run", id)
CannotCancel(status) == "Cannot cancel run with status '" \o status \o "'"

\* no createThread reply yet, no getThread / getRun call made yet
NoReplies == [created |-> <<>>, got |-> <<>>]

\* ------------------------------------------------- paths of the file store
\* A path is [abs, segs]: whether it starts with '/', and its segments.
Path(abs, segs) == [abs |-> abs, segs |-> segs]

RECURSIVE normalizeString(_, _, _)
\* node:path normalizeString: drops '' and '.', resolves '..' against the
\* segment before it, keeps a leading '..' only when allowAboveRoot
normalizeString(segs, allowAboveRoot, res) ==
  IF segs = <<>> THEN res
  ELSE LET s == Head(segs)
           out == IF s = "" \/ s = "." THEN res
                  ELSE IF s = ".."
                  THEN IF Len(res) > 0 /\ res[Len(res)] # ".."
                       THEN SubSeq(res, 1, Len(res) - 1)
                       ELSE IF allowAboveRoot THEN Append(res, "..")
                       ELSE res
                  ELSE Append(res, s)
       IN normalizeString(Tail(segs), allowAboveRoot, out)

\* path.join(dir, rel): dir + '/' + rel, normalized
join(dir, rel) ==
  Path(dir.abs, normalizeString(dir.segs \o rel, ~dir.abs, <<>>))

\* the segments of `${id}.json`, id given as its '/'-separated segments
WithJson(id) ==
  [i \in 1..Len(id) |-> IF i = Len(id) THEN id[i] \o ".json" ELSE id[i]]

\* filePath.startsWith(baseDir + path.sep)
startsWithDir(filePath, baseDir) ==
  /\ filePath.abs = baseDir.abs
  /\ Len(filePath.segs) > Len(baseDir.segs)
  /\ SubSeq(filePath.segs, 1, Len(baseDir.segs)) = baseDir.segs

EmptyId == <<"">>
InvalidEmpty == "Invalid id: id must not be empty"
RECURSIVE IdString(_)
\* the id as the string it is: its segments joined by '/'
IdString(id) ==
  IF Len(id) = 1 THEN id[1] ELSE id[1] \o "/" \o IdString(Tail(id))
InvalidId(id) == "Invalid id: " \o IdString(id)

Accepted(p) == [type |-> "path", path |-> p]

safePathEmptyOnly(baseDir, id) ==
  IF id = EmptyId THEN Raised(InvalidEmpty)
  ELSE Accepted(join(baseDir, WithJson(id)))

\* FileAgentStore.safePath(baseDir, id): the path, or the error it throws
safePath(baseDir, id) ==
  IF id = EmptyId THEN Raised(InvalidEmpty)
  ELSE LET filePath == join(baseDir, WithJson(id)) IN
       IF ~startsWithDir(filePath, baseDir) THEN Raised(InvalidId(id))
       ELSE Accepted(filePath)

\* the constructor's threadsDir and runsDir
threadsDir(dataDir) == join(dataDir, <<"threads">>)
runsDir(dataDir) == join(dataDir, <<"runs">>)

\* the directory a store operation works in
DirOf(op, dataDir) ==
  IF op \in {"getThread", "appendMessages", "createThread"}
  THEN threadsDir(dataDir) ELSE runsDir(dataDir)

\* options.dataDir: relative, relative above the working directory,
\* absolute
DataDirs ==
  {Path(FALSE, <<"data">>), Path(FALSE, <<"..", "data">>),
   Path(TRUE, <<"data">>)}

\* segments an id is made of, and the ids given to the store
PathSegs == {"", ".", "..", "t1", "r1", "threads", "runs"}
PathIds == UNION {[1..n -> PathSegs] : n \in 1..MaxSegs}

\* the ids the store generates (thread_<uuid>, run_<uuid>) and their
\* entity
GeneratedId(op) == IF op = "createThread" THEN <<"t1">> ELSE <<"r1">>
EntityOf(op) ==
  IF op \in {"getThread", "appendMessages"} THEN "Thread" ELSE "Run"

Access(kind, op, path) == [kind |-> kind, op |-> op, path |-> path]
PathReply(op, id, result) == [op |-> op, id |-> id, result |-> result]
ReturnedRecord == [type |-> "record"]

\* no file yet, no access made, no id-taking call made
NoDisk(dataDir) ==
  [dataDir |-> dataDir, files |-> {}, io |-> <<>>, calls |-> <<>>]

\* --------------------------------------------- the controller's lifecycle
AGENT_METHOD_NAMES ==
  {"createThread", "getThread", "asyncRun", "streamRun", "syncRun", "getRun",
   "cancelRun"}

\* a function on the prototype: whose code it is, and whether it carries
\* Symbol.for('AGENT_NOT_IMPLEMENTED')
Method(fn, of, notImplemented) ==
  [fn |-> fn, of |-> of, notImplemented |-> notImplemented]
Missing == Method("none", "", FALSE)
Stub == Method("stub", "", TRUE)
UserMethod(n) == Method("user", n, FALSE)
\* AGENT_DEFAULT_FACTORIES[n]()
DefaultMethod(n) == Method("default", n, FALSE)

\* the stores an instance can get: the FileAgentStore (init, no destroy),
\* and from createStore a store with init and destroy or one with neither
StoreKinds == {"file", "custom", "bare"}
HasInit(store) == store \in {"file", "custom"}
HasDestroy(store) == store = "custom"

\* a class as the decorator layer leaves it, and a new instance of it
NewCtl(marked, proto, userInit, userDestroy, storeKind) ==
  [marked |-> marked, enhanced |-> FALSE, proto |-> proto,
   initWraps |-> 0, destroyWraps |-> 0,
   userInit |-> userInit, userDestroy |-> userDestroy,
   createStore |-> storeKind,
   enhances |-> 0, inits |-> 0,
   store |-> "none", storeInits |-> 0, storeDestroyed |-> FALSE,
   pc |-> "new", depth |-> 0, pending |-> {},
   events |-> <<>>, replaced |-> {}]

\* an enhanced class whose instance has been initialised: every operation
\* is the default handler, the store is a FileAgentStore
ReadyCtl ==
  [NewCtl(TRUE, [n \in AGENT_METHOD_NAMES |-> DefaultMethod(n)],
          FALSE, FALSE, "file")
     EXCEPT !.enhanced = TRUE, !.initWraps = 1, !.destroyWraps = 1,
            !.enhances = 1, !.inits = 1, !.store = "file", !.storeInits = 1,
            !.pc = "ready",
            !.events = <<"obtain", "store.init", "registry">>]

\* the state after init(): an empty store and an empty registry; R and C
\* are the *Run calls and the cancelRun calls that will be made
ServingWith(R, C) ==
  /\ threads = <<>>
  /\ runs = <<>>
  /\ h = [r \in R |-> IdleCall]
  /\ sse = [r \in R |-> IdleSse]
  /\ aborted = [r \in R |-> FALSE]
  /\ runningTasks = {}
  /\ cancels = [c \in C |-> IdleCancel]
  /\ published = {}
  /\ nThreads = 0
  /\ now = 1
  /\ replies = NoReplies

\* ... over a file store in ./data, the instance being initialised
InitWith(R, C) ==
  /\ ServingWith(R, C)
  /\ disk = NoDisk(Path(FALSE, <<"data">>))
  /\ ctl = ReadyCtl

Init == InitWith(RunIds, CancelIds)


\* ------------------------------------------------------ the *Run handlers
\* thread ids a client can put into input.thread_id
KnownThreads ==
  (ExplicitThreads \cap DOMAIN threads) \cup {AutoThread(q) : q \in published}

\* syncRun / asyncRun / streamRun is called (lines 239-240, 301-302, 373-393)
Begin(r, kind, input, tid, meta) ==
  /\ h[r].kind = "none"
  /\ \A q \in DOMAIN h : q < r => h[q].kind # "none"
  /\ h' = [h EXCEPT ![r] =
             [IdleCall EXCEPT !.kind = kind, !.input = input,
                              !.thread_id = tid, !.threadId = tid,
                              !.metadata = meta,
                              !.pc = IF tid = NoThreadId THEN "mkthread"
                                     ELSE "mkrun"]]
  /\ sse' = IF kind = "stream"
            THEN [sse EXCEPT ![r].headers = TRUE] ELSE sse
  /\ UNCHANGED <<threads, runs, aborted, runningTasks, cancels, published,
                 nThreads, now, replies, disk, ctl>>

\* an error that leaves the handler: the call rejects
Reject(r, msg) == [h[r] EXCEPT !.pc = "done", !.result = Raised(msg)]

\* const thread = await this.__agentStore.createThread()
AutoCreateThread(r, ok) ==
  /\ h[r].pc = "mkthread"
  /\ IF ok
     THEN /\ threads' = (AutoThread(r) :> NewThread(AutoThread(r), Unset, now)) @@ threads
          /\ h' = [h EXCEPT ![r].threadId = AutoThread(r), ![r].pc = "mkrun"]
     ELSE /\ h' = [h EXCEPT ![r] = Reject(r, IoError)]
          /\ UNCHANGED threads
  /\ UNCHANGED <<runs, sse, aborted, runningTasks, cancels, published,
                 nThreads, now, replies, disk, ctl>>

RegisterTaskForgotten(r) == runningTasks
\* this.__runningTasks.set(run.id, { promise, abortController })
RegisterTask(r) == runningTasks \cup {r}

\* const run = await this.__agentStore.createRun(...), and the handler up
\* to its next await: syncRun takes startedAt, asyncRun starts the task,
\* registers it and returns, streamRun writes thread.run.created
CreateRun(r, ok) ==
  /\ h[r].pc = "mkrun"
  /\ IF ~ok
     THEN /\ h' = [h EXCEPT ![r] = Reject(r, IoError)]
          /\ UNCHANGED <<runs, sse, runningTasks, published>>
     ELSE LET rec == NewRun(r, h[r].input, h[r].threadId, h[r].config,
                            h[r].metadata, now)
              obj == RunObject(r, rec.created_at, h[r].threadId, "queued",
                               rec.metadata)
          IN
          /\ runs' = (r :> rec) @@ runs
          /\ h' = [h EXCEPT ![r] =
                     [@ EXCEPT !.pc = "ip_read", !.created_at = rec.created_at,
                               !.startedAt = now,
                               !.result = IF h[r].kind = "async"
                                          THEN Returned(obj) ELSE @]]
          /\ runningTasks' = IF h[r].kind = "async"
                             THEN RegisterTask(r) ELSE runningTasks
          /\ published' = IF h[r].kind \in {"async", "stream"}
                          THEN published \cup {r} ELSE published
          /\ sse' = IF h[r].kind = "stream"
                    THEN [sse EXCEPT ![r].frames =
                                       <<Frame("thread.run.created", obj)>>,
                                     ![r].runObj =
                                       [obj EXCEPT !.status = "in_progress",
                                                   !.started_at = now]]
                    ELSE sse
  /\ UNCHANGED <<threads, aborted, cancels, nThreads, now, replies, disk, ctl>>

CatchIgnoresAbort(r, msg) ==
  [h[r] EXCEPT !.pc = "fail_read", !.err = msg, !.stamp = now]

CatchLeavesEntry(r, msg) ==
  IF h[r].kind = "async" /\ aborted[r]
  THEN [h[r] EXCEPT !.pc = "done"]
  ELSE [h[r] EXCEPT !.pc = "fail_read", !.err = msg, !.stamp = now]

\* the catch clause of the handler's try block, entered with err.message
Catch(r, msg) ==
  IF h[r].kind = "async" /\ aborted[r]
  THEN [h[r] EXCEPT !.pc = "finally"]
  ELSE [h[r] EXCEPT !.pc = "fail_read", !.err = msg, !.stamp = now]

DoneFrame == Frame("done", "[DONE]")

\* streamRun's frames after the failed update (lines 511-519)
FailedFrames(r) ==
  <<Frame("thread.run.failed",
          [sse[r].runObj EXCEPT
             !.status = "failed", !.failed_at = h[r].stamp,
             !.last_error =
               Some([code |-> "EXEC_ERROR", message |-> h[r].err])]),
    DoneFrame>>

\* updateRun(run.id, {status: 'in_progress', ...}): its getRun
InProgressRead(r, ok) ==
  /\ h[r].pc = "ip_read"
  /\ h' = [h EXCEPT ![r] =
             IF ok THEN [@ EXCEPT !.pc = "ip_write", !.snap = runs[r]]
             ELSE IF h[r].kind = "stream" THEN Reject(r, IoError)
             ELSE Catch(r, IoError)]
  /\ UNCHANGED <<threads, runs, sse, aborted, runningTasks, cancels,
                 published, nThreads, now, replies, disk, ctl>>

\* ... and its writeFile; streamRun then writes thread.run.in_progress and
\* thread.message.created, and every handler calls execRun
InProgressWrite(r, ok) ==
  /\ h[r].pc = "ip_write"
  /\ IF ok
     THEN /\ runs' = [runs EXCEPT ![r] =
                        Assign(h[r].snap, InProgressUpdate(h[r].startedAt))]
          /\ h' = [h EXCEPT ![r].pc = "exec", ![r].snap = EmptyRun]
          /\ sse' = IF h[r].kind = "stream"
                    THEN [sse EXCEPT ![r].frames = @ \o
                            <<Frame("thread.run.in_progress", sse[r].runObj),
                              Frame("thread.message.created",
                                    [NoMsgObj EXCEPT !.run_id = r])>>]
                    ELSE sse
     ELSE /\ h' = [h EXCEPT ![r] =
                     IF h[r].kind = "stream" THEN Reject(r, IoError)
                     ELSE Catch(r, IoError)]
          /\ UNCHANGED <<runs, sse>>
  /\ UNCHANGED <<threads, aborted, runningTasks, cancels, published,
                 nThreads, now, replies, disk, ctl>>

\* AfterLoop with [msgObj] as streamRun's output whatever the content
AfterLoopAlwaysMessage(r) ==
  IF h[r].kind = "async" /\ aborted[r]
  THEN [h[r] EXCEPT !.pc = "finally"]
  ELSE IF h[r].kind = "stream"
  THEN [h[r] EXCEPT
          !.pc = "comp_read", !.stamp = now,
          !.output = <<[NoMsgObj EXCEPT
                          !.run_id = r, !.status = "completed",
                          !.content = sse[r].accumulatedContent]>>,
          !.usage = IF sse[r].hasUsage
                    THEN Some(MakeUsage(sse[r].promptTokens,
                                        sse[r].completionTokens))
                    ELSE Unset]
  ELSE LET ex == extractFromStreamMessages(h[r].streamMessages, r) IN
       [h[r] EXCEPT !.pc = "comp_read", !.stamp = now,
                    !.output = ex.output, !.usage = ex.usage]

\* the handler after its for-await loop: asyncRun returns when aborted,
\* the others build output and usage and call updateRun(completed)
AfterLoop(r) ==
  IF h[r].kind = "async" /\ aborted[r]
  THEN [h[r] EXCEPT !.pc = "finally"]
  ELSE IF h[r].kind = "stream"
  THEN [h[r] EXCEPT
          !.pc = "comp_read", !.stamp = now,
          !.output = IF Len(sse[r].accumulatedContent) > 0
                     THEN <<[NoMsgObj EXCEPT
                               !.run_id = r, !.status = "completed",
                               !.content = sse[r].accumulatedContent]>>
                     ELSE <<>>,
          !.usage = IF sse[r].hasUsage
                    THEN Some(MakeUsage(sse[r].promptTokens,
                                        sse[r].completionTokens))
                    ELSE Unset]
  ELSE LET ex == extractFromStreamMessages(h[r].streamMessages, r) IN
       [h[r] EXCEPT !.pc = "comp_read", !.stamp = now,
                    !.output = ex.output, !.usage = ex.usage]

\* streamRun's thread.message.completed frame (lines 465-468)
MessageCompleted(r) ==
  Frame("thread.message.completed",
        [NoMsgObj EXCEPT !.run_id = r, !.status = "completed",
                         !.content = sse[r].accumulatedContent])

\* execRun yields a chunk and the loop body runs
ExecYield(r, chunk) ==
  /\ h[r].pc = "exec"
  /\ h[r].yielded < MaxChunks
  /\ IF h[r].kind # "sync" /\ aborted[r]
     THEN \* if (abortController.signal.aborted) break;
          /\ h' = [h EXCEPT ![r] =
                     [AfterLoop(r) EXCEPT
                        !.yielded = @ + 1, !.discarded = TRUE,
                        !.yieldedChunks = Append(@, chunk)]]
          /\ sse' = IF h[r].kind = "stream"
                    THEN [sse EXCEPT ![r].frames = @ \o <<MessageCompleted(r)>>]
                    ELSE sse
     ELSE IF h[r].kind = "stream"
     THEN LET contentBlocks == toContentBlocks(chunk.message)
              hasMsg == chunk.message # Unset
              hasUse == chunk.usage # Unset
          IN
          /\ h' = [h EXCEPT ![r].yielded = @ + 1,
                            ![r].yieldedChunks = Append(@, chunk)]
          /\ sse' = [sse EXCEPT ![r] =
               [@ EXCEPT
                  !.accumulatedContent =
                     IF hasMsg THEN @ \o contentBlocks ELSE @,
                  !.frames =
                     IF hasMsg
                     THEN @ \o <<Frame("thread.message.delta",
                                       [content |-> contentBlocks])>>
                     ELSE @,
                  !.hasUsage = IF hasUse THEN TRUE ELSE @,
                  !.promptTokens =
                     IF hasUse THEN @ + Opt0(chunk.usage[1].prompt_tokens)
                     ELSE @,
                  !.completionTokens =
                     IF hasUse THEN @ + Opt0(chunk.usage[1].completion_tokens)
                     ELSE @]]
     ELSE /\ h' = [h EXCEPT ![r].yielded = @ + 1,
                            ![r].streamMessages = Append(@, chunk),
                            ![r].yieldedChunks = Append(@, chunk)]
          /\ UNCHANGED sse
  /\ UNCHANGED <<threads, runs, aborted, runningTasks, cancels, published,
                 nThreads, now, replies, disk, ctl>>

\* execRun returns: the loop ends
ExecFinish(r) ==
  /\ h[r].pc = "exec"
  /\ h' = [h EXCEPT ![r] = AfterLoop(r)]
  /\ sse' = IF h[r].kind = "stream"
            THEN [sse EXCEPT ![r].frames = @ \o <<MessageCompleted(r)>>]
            ELSE sse
  /\ UNCHANGED <<threads, runs, aborted, runningTasks, cancels, published,
                 nThreads, now, replies, disk, ctl>>

\* execRun raises
ExecRaise(r) ==
  /\ h[r].pc = "exec"
  /\ h' = [h EXCEPT ![r] = Catch(r, ExecError)]
  /\ UNCHANGED <<threads, runs, sse, aborted, runningTasks, cancels,
                 published, nThreads, now, replies, disk, ctl>>


\* updateRun(run.id, {status: 'completed', ...}): its getRun
CompletedRead(r, ok) ==
  /\ h[r].pc = "comp_read"
  /\ h' = [h EXCEPT ![r] =
             IF ok THEN [@ EXCEPT !.pc = "comp_write", !.snap = runs[r]]
             ELSE Catch(r, IoError)]
  /\ UNCHANGED <<threads, runs, sse, aborted, runningTasks, cancels,
                 published, nThreads, now, replies, disk, ctl>>

\* ... and its writeFile
CompletedWrite(r, ok) ==
  /\ h[r].pc = "comp_write"
  /\ IF ok
     THEN /\ runs' = [runs EXCEPT ![r] =
                        Assign(h[r].snap,
                               CompletedUpdate(h[r].output, h[r].usage,
                                               h[r].stamp))]
          /\ h' = [h EXCEPT ![r].pc = "app_read", ![r].snap = EmptyRun,
                            ![r].wroteCompleted = TRUE]
     ELSE /\ h' = [h EXCEPT ![r] = Catch(r, IoError)]
          /\ UNCHANGED runs
  /\ UNCHANGED <<threads, sse, aborted, runningTasks, cancels, published,
                 nThreads, now, replies, disk, ctl>>

AppendedOutputOnly(r) == h[r].output

\* the messages the handler passes to appendMessages
AppendedMessages(r) ==
  toInputMessageObjects(h[r].input, h[r].threadId) \o h[r].output

\* appendMessages(threadId, [...]): its getThread
AppendRead(r, ok) ==
  /\ h[r].pc = "app_read"
  /\ h' = [h EXCEPT ![r] =
             IF ~ok THEN Catch(r, IoError)
             ELSE IF ~ThreadExists(h[r].threadId)
             THEN Catch(r, ThreadNotFound(h[r].threadId))
             ELSE [@ EXCEPT !.pc = "app_write",
                            !.tsnap = threads[h[r].threadId].messages]]
  /\ UNCHANGED <<threads, runs, sse, aborted, runningTasks, cancels,
                 published, nThreads, now, replies, disk, ctl>>

CompletedFramesDoneFirst(r) ==
  <<DoneFrame,
    Frame("thread.run.completed",
          [sse[r].runObj EXCEPT
             !.status = "completed", !.completed_at = now,
             !.usage = h[r].usage, !.output = Some(h[r].output)])>>

\* streamRun's frames after the append (lines 493-519)
CompletedFrames(r) ==
  <<Frame("thread.run.completed",
          [sse[r].runObj EXCEPT
             !.status = "completed", !.completed_at = now,
             !.usage = h[r].usage, !.output = Some(h[r].output)]),
    DoneFrame>>

AppendWriteLocked(r, ok) ==
  /\ h[r].pc = "app_write"
  /\ IF ok
     THEN /\ threads' = [threads EXCEPT ![h[r].threadId].messages =
                           threads[h[r].threadId].messages \o AppendedMessages(r)]
          /\ h' = [h EXCEPT ![r].pc =
                     CASE h[r].kind = "sync" -> "ret"
                       [] h[r].kind = "async" -> "finally"
                       [] OTHER -> "done"]
          /\ sse' = IF h[r].kind = "stream"
                    THEN [sse EXCEPT ![r].frames = @ \o CompletedFrames(r),
                                     ![r].ended = TRUE]
                    ELSE sse
     ELSE /\ h' = [h EXCEPT ![r] = Catch(r, IoError)]
          /\ UNCHANGED <<threads, sse>>
  /\ UNCHANGED <<runs, aborted, runningTasks, cancels, published,
                 nThreads, now, replies, disk, ctl>>

\* ... and its writeFile; streamRun then writes thread.run.completed and
\* done and ends the response
AppendWrite(r, ok) ==
  /\ h[r].pc = "app_write"
  /\ IF ok
     THEN /\ threads' = [threads EXCEPT ![h[r].threadId].messages =
                           h[r].tsnap \o AppendedMessages(r)]
          /\ h' = [h EXCEPT ![r].pc =
                     CASE h[r].kind = "sync" -> "ret"
                       [] h[r].kind = "async" -> "finally"
                       [] OTHER -> "done"]
          /\ sse' = IF h[r].kind = "stream"
                    THEN [sse EXCEPT ![r].frames = @ \o CompletedFrames(r),
                                     ![r].ended = TRUE]
                    ELSE sse
     ELSE /\ h' = [h EXCEPT ![r] = Catch(r, IoError)]
          /\ UNCHANGED <<threads, sse>>
  /\ UNCHANGED <<runs, aborted, runningTasks, cancels, published,
                 nThreads, now, replies, disk, ctl>>

\* syncRun returns the completed run (lines 276-287)
SyncReturn(r) ==
  /\ h[r].pc = "ret"
  /\ h' = [h EXCEPT ![r].pc = "done", ![r].result =
             Returned([RunObject(r, h[r].created_at, h[r].threadId,
                                 "completed", h[r].metadata)
                         EXCEPT !.started_at = h[r].startedAt,
                                !.completed_at = h[r].stamp,
                                !.output = Some(h[r].output),
                                !.usage = h[r].usage])]
  /\ published' = published \cup {r}
  /\ UNCHANGED <<threads, runs, sse, aborted, runningTasks, cancels,
                 nThreads, now, replies, disk, ctl>>

AfterFailedUpdateRethrows(r, ok) ==
  CASE h[r].kind = "sync" ->
         Reject(r, IF ok THEN h[r].err ELSE IoError)
    [] h[r].kind = "async" ->
         IF ok THEN [h[r] EXCEPT !.pc = "finally"] ELSE Reject(r, IoError)
    [] OTHER -> [h[r] EXCEPT !.pc = "done"]

\* the handler when the updateRun(failed) of its catch clause is over:
\* syncRun rethrows err (or the store's error), asyncRun's task goes to its
\* finally clause, streamRun writes thread.run.failed and done
AfterFailedUpdate(r, ok) ==
  CASE h[r].kind = "sync" ->
         Reject(r, IF ok THEN h[r].err ELSE IoError)
    [] h[r].kind = "async" -> [h[r] EXCEPT !.pc = "finally"]
    [] OTHER -> [h[r] EXCEPT !.pc = "done"]

\* FailedRead without the inner try/catch of streamRun's catch clause
FailedReadUnguarded(r, ok) ==
  /\ h[r].pc = "fail_read"
  /\ h' = [h EXCEPT ![r] =
             IF ok THEN [@ EXCEPT !.pc = "fail_write", !.snap = runs[r]]
             ELSE IF h[r].kind = "stream" THEN Reject(r, IoError)
             ELSE AfterFailedUpdate(r, FALSE)]
  /\ sse' = IF ~ok /\ h[r].kind = "stream"
            THEN [sse EXCEPT ![r].frames = @ \o <<DoneFrame>>,
                             ![r].ended = TRUE]
            ELSE sse
  /\ UNCHANGED <<threads, runs, aborted, runningTasks, cancels, published,
                 nThreads, now, replies, disk, ctl>>

\* updateRun(run.id, {status: 'failed', ...}): its getRun
FailedRead(r, ok) ==
  /\ h[r].pc = "fail_read"
  /\ h' = [h EXCEPT ![r] =
             IF ok THEN [@ EXCEPT !.pc = "fail_write", !.snap = runs[r]]
             ELSE AfterFailedUpdate(r, FALSE)]
  /\ sse' = IF ~ok /\ h[r].kind = "stream"
            THEN [sse EXCEPT ![r].frames = @ \o FailedFrames(r),
                             ![r].ended = TRUE]
            ELSE sse
  /\ UNCHANGED <<threads, runs, aborted, runningTasks, cancels, published,
                 nThreads, now, replies, disk, ctl>>

\* ... and its writeFile
FailedWrite(r, ok) ==
  /\ h[r].pc = "fail_write"
  /\ runs' = IF ok
             THEN [runs EXCEPT ![r] =
                     Assign(h[r].snap, FailedUpdate(h[r].err, h[r].stamp))]
             ELSE runs
  /\ h' = [h EXCEPT ![r] = AfterFailedUpdate(r, ok)]
  /\ sse' = IF h[r].kind = "stream"
            THEN [sse EXCEPT ![r].frames = @ \o FailedFrames(r),
                             ![r].ended = TRUE]
            ELSE sse
  /\ UNCHANGED <<threads, aborted, runningTasks, cancels, published,
                 nThreads, now, replies, disk, ctl>>

FinallyKeepsEntry(r) ==
  /\ h[r].pc = "finally"
  /\ h' = [h EXCEPT ![r].pc = "done"]
  /\ UNCHANGED <<threads, runs, sse, aborted, runningTasks, cancels,
                 published, nThreads, now, replies, disk, ctl>>

\* the finally clause of asyncRun's task; its promise is then settled
Finally(r) ==
  /\ h[r].pc = "finally"
  /\ runningTasks' = runningTasks \ {r}
  /\ h' = [h EXCEPT ![r].pc = "done"]
  /\ UNCHANGED <<threads, runs, sse, aborted, cancels, published,
                 nThreads, now, replies, disk, ctl>>

\* res.on('close', () => abortController.abort()): the client goes away
Disconnect(r) ==
  /\ h[r].kind = "stream"
  /\ ~sse[r].ended
  /\ ~aborted[r]
  /\ aborted' = [aborted EXCEPT ![r] = TRUE]
  /\ UNCHANGED <<threads, runs, h, sse, runningTasks, cancels, published,
                 nThreads, now, replies, disk, ctl>>

\* ------------------------------------------------------------ cancelRun
CancelReject(c, msg) ==
  [cancels[c] EXCEPT !.pc = "done", !.result = Raised(msg),
                     !.snap = EmptyRun]

\* cancelRun(runId) up to its first await: look the task up and abort it
CancelBegin(c, r) ==
  /\ cancels[c].pc = "idle"
  /\ \A d \in DOMAIN cancels : d < c => cancels[d].pc # "idle"
  /\ r \in published \cup {NopeRun}
  /\ IF r \in runningTasks
     THEN /\ aborted' = [aborted EXCEPT ![r] = TRUE]
          /\ cancels' = [cancels EXCEPT ![c].run = r, ![c].pc = "wait",
                                         ![c].statusAtCall = runs[r].status,
                                         ![c].awaited = TRUE]
     ELSE /\ cancels' = [cancels EXCEPT
                           ![c].run = r, ![c].pc = "read",
                           ![c].statusAtCall =
                              IF RunExists(r) THEN runs[r].status ELSE ""]
          /\ UNCHANGED aborted
  /\ UNCHANGED <<threads, runs, h, sse, runningTasks, published,
                 nThreads, now, replies, disk, ctl>>

CancelAwaitNoWait(c) ==
  /\ cancels[c].pc = "wait"
  /\ cancels' = [cancels EXCEPT ![c].pc = "read"]
  /\ UNCHANGED <<threads, runs, h, sse, aborted, runningTasks, published,
                 nThreads, now, replies, disk, ctl>>

CancelAwaitBeforeFinally(c) ==
  /\ cancels[c].pc = "wait"
  /\ h[cancels[c].run].pc \in {"finally", "done"}
  /\ cancels' = [cancels EXCEPT ![c].pc = "read"]
  /\ UNCHANGED <<threads, runs, h, sse, aborted, runningTasks, published,
                 nThreads, now, replies, disk, ctl>>

\* await task.promise.catch(...): resumes when the task has settled
CancelAwait(c) ==
  /\ cancels[c].pc = "wait"
  /\ h[cancels[c].run].pc = "done"
  /\ cancels' = [cancels EXCEPT ![c].pc = "read"]
  /\ UNCHANGED <<threads, runs, h, sse, aborted, runningTasks, published,
                 nThreads, now, replies, disk, ctl>>

CancelReadNoCheck(c, ok) ==
  /\ cancels[c].pc = "read"
  /\ LET run == runs[cancels[c].run] IN
     cancels' = [cancels EXCEPT ![c] =
        IF ~ok THEN CancelReject(c, IoError)
        ELSE IF ~RunExists(cancels[c].run)
        THEN CancelReject(c, RunNotFound(cancels[c].run))
        ELSE [@ EXCEPT !.pc = "upd_read", !.snap = run, !.cancelledAt = now]]
  /\ UNCHANGED <<threads, runs, h, sse, aborted, runningTasks, published,
                 nThreads, now, replies, disk, ctl>>

\* const run = await getRun(runId), and the terminal check
CancelRead(c, ok) ==
  /\ cancels[c].pc = "read"
  /\ LET run == runs[cancels[c].run] IN
     cancels' = [cancels EXCEPT ![c] =
        IF ~ok THEN CancelReject(c, IoError)
        ELSE IF ~RunExists(cancels[c].run)
        THEN CancelReject(c, RunNotFound(cancels[c].run))
        ELSE IF run.status \in TERMINAL_RUN_STATUSES
        THEN CancelReject(c, CannotCancel(run.status))
        ELSE [@ EXCEPT !.pc = "upd_read", !.snap = run, !.cancelledAt = now]]
  /\ UNCHANGED <<threads, runs, h, sse, aborted, runningTasks, published,
                 nThreads, now, replies, disk, ctl>>

\* updateRun(runId, {status: 'cancelled', ...}): its getRun
CancelUpdateRead(c, ok) ==
  /\ cancels[c].pc = "upd_read"
  /\ cancels' = [cancels EXCEPT ![c] =
        IF ok THEN [@ EXCEPT !.pc = "upd_write", !.snap = runs[cancels[c].run]]
        ELSE CancelReject(c, IoError)]
  /\ UNCHANGED <<threads, runs, h, sse, aborted, runningTasks, published,
                 nThreads, now, replies, disk, ctl>>

\* ... and its writeFile, then the return (lines 571-578)
CancelUpdateWrite(c, ok) ==
  /\ cancels[c].pc = "upd_write"
  /\ LET r == cancels[c].run
         run == cancels[c].snap
     IN
     IF ok
     THEN /\ runs' = [runs EXCEPT ![r] =
                        Assign(run, CancelledUpdate(cancels[c].cancelledAt))]
          /\ cancels' = [cancels EXCEPT ![c].pc = "done",
                                         ![c].snap = EmptyRun, ![c].result =
               Returned([RunObject(run.id, run.created_at, run.thread_id,
                                   "cancelled", Unset)
                           EXCEPT !.cancelled_at = cancels[c].cancelledAt])]
     ELSE /\ cancels' = [cancels EXCEPT ![c] = CancelReject(c, IoError)]
          /\ UNCHANGED runs
  /\ UNCHANGED <<threads, h, sse, aborted, runningTasks, published,
                 nThreads, now, replies, disk, ctl>>

\* --------------------------------------------------------- createThread
\* the ThreadObject that createThread returns (lines 216-221)
ThreadObject(thread) ==
  [id |-> thread.id, object |-> "thread", created_at |-> thread.created_at,
   metadata |-> OrEmpty(Some(thread.metadata))]

\* the createThread handler: store.createThread() and the projection
CreateThread ==
  /\ nThreads < MaxThreads
  /\ nThreads' = nThreads + 1
  /\ LET id == AutoThreads + nThreads + 1
         thread == NewThread(id, Unset, now)
     IN /\ threads' = (id :> thread) @@ threads
        /\ replies' = [replies EXCEPT
                         !.created = (id :> ThreadObject(thread)) @@ @]
  /\ UNCHANGED <<runs, h, sse, aborted, runningTasks, cancels, published, now,
                 disk, ctl>>

\* ------------------------------------- getThread, getRun, the store API
ReturnedThread(thread) == [type |-> "thread", thread |-> thread]
ReturnedVoid == [type |-> "void"]
Reply(call, id, result) == [call |-> call, id |-> id, result |-> result]

ThreadObjectNoCreatedAt(thread) ==
  [id |-> thread.id, object |-> "thread", created_at |-> 0,
   metadata |-> OrEmpty(Some(thread.metadata)),
   messages |-> thread.messages]

\* the ThreadObjectWithMessages that getThread returns (lines 228-234)
ThreadObjectWithMessages(thread) ==
  [id |-> thread.id, object |-> "thread", created_at |-> thread.created_at,
   metadata |-> OrEmpty(Some(thread.metadata)),
   messages |-> thread.messages]

\* the RunObject that getRun returns (lines 527-542): every field of the
\* record but input
RunProjection(run) == [f \in DOMAIN run \ {"input"} |-> run[f]]

StoreGetThreadBareMessage(threadId, ok) ==
  IF ~ok THEN Raised(IoError)
  ELSE IF ~ThreadExists(threadId) THEN Raised("Thread not found")
  ELSE ReturnedThread(threads[threadId])

\* FileAgentStore.getThread(threadId): the record, or the error it throws
StoreGetThread(threadId, ok) ==
  IF ~ok THEN Raised(IoError)
  ELSE IF ~ThreadExists(threadId) THEN Raised(ThreadNotFound(threadId))
  ELSE ReturnedThread(threads[threadId])

\* FileAgentStore.getRun(runId): the record, or the error it throws
StoreGetRun(runId, ok) ==
  IF ~ok THEN Raised(IoError)
  ELSE IF ~RunExists(runId) THEN Raised(RunNotFound(runId))
  ELSE Returned(runs[runId])

\* the getThread handler
GetThread(threadId, ok) ==
  /\ Len(replies.got) < MaxCalls
  /\ LET res == StoreGetThread(threadId, ok) IN
     replies' = [replies EXCEPT !.got = Append(@,
        Reply("getThread", threadId,
              IF res.type = "thread"
              THEN ReturnedThread(ThreadObjectWithMessages(res.thread))
              ELSE res))]
  /\ UNCHANGED <<threads, runs, h, sse, aborted, runningTasks, cancels,
                 published, nThreads, now, disk, ctl>>

\* the getRun handler
GetRun(runId, ok) ==
  /\ Len(replies.got) < MaxCalls
  /\ LET res == StoreGetRun(runId, ok) IN
     replies' = [replies EXCEPT !.got = Append(@,
        Reply("getRun", runId,
              IF res.type = "run" THEN Returned(RunProjection(res.run))
              ELSE res))]
  /\ UNCHANGED <<threads, runs, h, sse, aborted, runningTasks, cancels,
                 published, nThreads, now, disk, ctl>>

\* FileAgentStore.updateRun(runId, updates) called on the store itself,
\* by a caller that awaits it with nothing else in between
StoreUpdateRun(runId, updates, ok) ==
  /\ Len(replies.got) < MaxCalls
  /\ LET res == StoreGetRun(runId, ok) IN
     /\ runs' = IF res.type = "run"
                THEN [runs EXCEPT ![runId] = Assign(res.run, updates)]
                ELSE runs
     /\ replies' = [replies EXCEPT !.got = Append(@,
           Reply("updateRun", runId,
                 IF res.type = "run" THEN ReturnedVoid ELSE res))]
  /\ UNCHANGED <<threads, h, sse, aborted, runningTasks, cancels,
                 published, nThreads, now, disk, ctl>>

\* FileAgentStore.appendMessages(threadId, messages) called on the store
\* itself, likewise
StoreAppendMessages(threadId, messages, ok) ==
  /\ Len(replies.got) < MaxCalls
  /\ LET res == StoreGetThread(threadId, ok) IN
     /\ threads' = IF res.type = "thread"
                   THEN [threads EXCEPT ![threadId].messages = @ \o messages]
                   ELSE threads
     /\ replies' = [replies EXCEPT !.got = Append(@,
           Reply("appendMessages", threadId,
                 IF res.type = "thread" THEN ReturnedVoid ELSE res))]
  /\ UNCHANGED <<runs, h, sse, aborted, runningTasks, cancels,
                 published, nThreads, now, disk, ctl>>

\* ------------------------------------------------ enhanceAgentController
stubMethodsMarkedOnly(proto) ==
  {n \in AGENT_METHOD_NAMES : proto[n].notImplemented}

\* the methods the enhancer takes for stubs (lines 37-43)
stubMethods(proto) ==
  {n \in AGENT_METHOD_NAMES :
     proto[n].fn = "none" \/ proto[n].notImplemented}

EnhancedUnguarded(c) ==
  IF ~c.marked THEN c
  ELSE [c EXCEPT
          !.initWraps = @ + 1,
          !.destroyWraps = @ + 1,
          !.proto = [n \in AGENT_METHOD_NAMES |->
                       IF n \in stubMethods(c.proto) THEN DefaultMethod(n)
                       ELSE c.proto[n]],
          !.enhanced = TRUE]

\* the class after enhanceAgentController(clazz) (lines 25-96)
Enhanced(c) ==
  IF ~c.marked THEN c
  ELSE IF c.enhanced THEN c
  ELSE [c EXCEPT
          !.initWraps = @ + 1,
          !.destroyWraps = @ + 1,
          !.proto = [n \in AGENT_METHOD_NAMES |->
                       IF n \in stubMethods(c.proto) THEN DefaultMethod(n)
                       ELSE c.proto[n]],
          !.enhanced = TRUE]

\* the lifecycle hook calls enhanceAgentController(clazz)
Enhance ==
  /\ ctl.pc = "new"
  /\ ctl.enhances < MaxEnhances
  /\ ctl' = [Enhanced(ctl) EXCEPT !.enhances = @ + 1]
  /\ UNCHANGED <<threads, runs, h, sse, aborted, runningTasks, cancels,
                 published, nThreads, now, replies, disk>>

\* instance.init() is called: the outermost wrapper starts, or the user's
\* own init when the class was not enhanced
InitCall ==
  /\ ctl.pc \in {"new", "ready"}
  /\ ctl.inits < MaxInits
  /\ ctl' = [ctl EXCEPT
               !.inits = @ + 1, !.events = <<>>, !.depth = ctl.initWraps,
               !.pc = IF ctl.initWraps > 0 THEN "init_obtain" ELSE "init_user"]
  /\ UNCHANGED <<threads, runs, h, sse, aborted, runningTasks, cancels,
                 published, nThreads, now, replies, disk>>

\* this.__agentStore = await this.createStore(), or new FileAgentStore
\* (lines 49-54)
InitObtain ==
  /\ ctl.pc = "init_obtain"
  /\ ctl' = [ctl EXCEPT
               !.store = ctl.createStore, !.storeInits = 0,
               !.storeDestroyed = FALSE,
               !.events = Append(@, "obtain"), !.pc = "init_store"]
  /\ UNCHANGED <<threads, runs, h, sse, aborted, runningTasks, cancels,
                 published, nThreads, now, replies, disk>>

\* await this.__agentStore.init() when the store has one, then
\* this.__runningTasks = new Map() (lines 56-60); the wrapper then calls
\* what it wrapped.  replaced is history: the entries of registries that
\* this assignment has dropped
InitStore ==
  /\ ctl.pc = "init_store"
  /\ runningTasks' = {}
  /\ ctl' = [ctl EXCEPT
               !.storeInits = IF HasInit(ctl.store) THEN @ + 1 ELSE @,
               !.events = @ \o (IF HasInit(ctl.store)
                                THEN <<"store.init">> ELSE <<>>)
                           \o <<"registry">>,
               !.replaced = @ \cup runningTasks,
               !.depth = @ - 1,
               !.pc = IF ctl.depth > 1 THEN "init_obtain" ELSE "init_user"]
  /\ UNCHANGED <<threads, runs, h, sse, aborted, cancels, published,
                 nThreads, now, replies, disk>>

\* await originalInit.call(this) when the class defined init (lines 62-64)
InitUser ==
  /\ ctl.pc = "init_user"
  /\ ctl' = [ctl EXCEPT
               !.events = IF ctl.userInit
                          THEN Append(@, IF ctl.store # "none"
                                            /\ (HasInit(ctl.store)
                                                  => ctl.storeInits > 0)
                                            /\ runningTasks = {}
                                         THEN "user.init"
                                         ELSE "user.init:unready")
                          ELSE @,
               !.pc = "ready"]
  /\ UNCHANGED <<threads, runs, h, sse, aborted, runningTasks, cancels,
                 published, nThreads, now, replies, disk>>

\* the task of asyncRun call r has ended: its promise is settled
Settled(r) == h[r].pc = "done"

\* instance.destroy() is called (lines 69-74): the wrapper collects the
\* promises of the registry, or goes on when the registry is empty
DestroyCall ==
  /\ ctl.pc = "ready"
  /\ ctl' = [ctl EXCEPT
               !.events = <<>>, !.depth = ctl.destroyWraps,
               !.pending = IF ctl.destroyWraps > 0 THEN runningTasks ELSE {},
               !.pc = IF ctl.destroyWraps = 0 THEN "destroy_user"
                      ELSE IF runningTasks # {} THEN "destroy_wait"
                      ELSE "destroy_store"]
  /\ UNCHANGED <<threads, runs, h, sse, aborted, runningTasks, cancels,
                 published, nThreads, now, replies, disk>>

DestroyNoWait ==
  /\ ctl.pc = "destroy_wait"
  /\ ctl' = [ctl EXCEPT !.events = Append(@, "settled"),
                        !.pc = "destroy_store"]
  /\ UNCHANGED <<threads, runs, h, sse, aborted, runningTasks, cancels,
                 published, nThreads, now, replies, disk>>

\* await Promise.allSettled(pending) is over (line 73)
DestroySettled ==
  /\ ctl.pc = "destroy_wait"
  /\ \A r \in ctl.pending : Settled(r)
  /\ ctl' = [ctl EXCEPT !.events = Append(@, "settled"),
                        !.pc = "destroy_store"]
  /\ UNCHANGED <<threads, runs, h, sse, aborted, runningTasks, cancels,
                 published, nThreads, now, replies, disk>>

\* await this.__agentStore.destroy() when the store has one (lines 77-79);
\* the wrapper then calls what it wrapped
DestroyStore ==
  /\ ctl.pc = "destroy_store"
  /\ ctl' = [ctl EXCEPT
               !.storeDestroyed = IF HasDestroy(ctl.store) THEN TRUE ELSE @,
               !.events = IF HasDestroy(ctl.store)
                          THEN Append(@, "store.destroy") ELSE @,
               !.depth = @ - 1,
               !.pending = IF ctl.depth > 1 THEN runningTasks ELSE @,
               !.pc = IF ctl.depth <= 1 THEN "destroy_user"
                      ELSE IF runningTasks # {} THEN "destroy_wait"
                      ELSE "destroy_store"]
  /\ UNCHANGED <<threads, runs, h, sse, aborted, runningTasks, cancels,
                 published, nThreads, now, replies, disk>>

\* await originalDestroy.call(this) when the class defined destroy
\* (lines 81-83)
DestroyUser ==
  /\ ctl.pc = "destroy_user"
  /\ ctl' = [ctl EXCEPT
               !.events = IF ctl.userDestroy
                          THEN Append(@, "user.destroy") ELSE @,
               !.pc = "destroyed"]
  /\ UNCHANGED <<threads, runs, h, sse, aborted, runningTasks, cancels,
                 published, nThreads, now, replies, disk>>

\* ------------------------------------------- the store's files and paths
\* createThread / createRun: writeFile(safePath(dir, generated id), record)
PathCreate(op) ==
  LET sp == safePath(DirOf(op, disk.dataDir), GeneratedId(op)) IN
  /\ sp.type = "path"
  /\ sp.path \notin disk.files
  /\ disk' = [disk EXCEPT !.files = @ \cup {sp.path},
                          !.io = Append(@, Access("write", op, sp.path))]
  /\ UNCHANGED <<threads, runs, h, sse, aborted, runningTasks, cancels,
                 published, nThreads, now, replies, ctl>>

\* getThread / getRun / updateRun / appendMessages(id, ...): safePath, then
\* readFile, then for the last two safePath again and writeFile
PathCall(op, id) ==
  LET dir == DirOf(op, disk.dataDir)
      sp == safePath(dir, id)
  IN
  /\ Len(disk.calls) < MaxPathCalls
  /\ disk' =
       IF sp.type # "path"
       THEN [disk EXCEPT !.calls = Append(@, PathReply(op, id, sp))]
       ELSE IF sp.path \notin disk.files
       THEN [disk EXCEPT
               !.io = Append(@, Access("read", op, sp.path)),
               !.calls = Append(@, PathReply(op, id,
                  Raised(EntityOf(op) \o " " \o IdString(id)
                         \o " not found")))]
       ELSE IF op \in {"getThread", "getRun"}
       THEN [disk EXCEPT
               !.io = Append(@, Access("read", op, sp.path)),
               !.calls = Append(@, PathReply(op, id, ReturnedRecord))]
       ELSE [disk EXCEPT
               !.io = @ \o <<Access("read", op, sp.path),
                             Access("write", op, safePath(dir, id).path)>>,
               !.calls = Append(@, PathReply(op, id, ReturnedVoid))]
  /\ UNCHANGED <<threads, runs, h, sse, aborted, runningTasks, cancels,
                 published, nThreads, now, replies, ctl>>

\* ------------------------------------------------ writeFile and readFile
\* The file system is names bound to inodes and the content of each inode;
\* an open file is an inode, whatever happens to its name afterwards.
WriterIds == 1..MaxWriters
ReaderIds == 1..MaxReaders
Uuids == 1..MaxUuids

\* the record file every call here is about
RunFile == "data/runs/run_1.json"

\* `${filePath}.${crypto.randomUUID()}.tmp`
tmpPathShared(filePath, uuid) == filePath \o ".tmp"
tmpPath(filePath, uuid) == filePath \o "." \o ToString(uuid) \o ".tmp"

\* the content of a file: the JSON text of a record, all of it or only a
\* part (a file just opened for writing is empty)
Content(data, whole) == [json |-> data, whole |-> whole]

\* JSON.parse(content): the record of a whole text, a SyntaxError otherwise
JsonParse(content) ==
  IF content.whole THEN [type |-> "data", data |-> content.json]
  ELSE Raised("SyntaxError")

\* readFile's answer when the file is missing
ReturnedNull == [type |-> "null"]

IdleWriter == [pc |-> "idle", tmpPath |-> "", fd |-> 0]
IdleReader == [pc |-> "idle", fd |-> 0, result |-> NoResult]

\* a data directory in which the record is absent (before createRun) or
\* present in the version createRun wrote (version 0)
FileDisk(present) ==
  [names |-> IF present THEN (RunFile :> 1) ELSE <<>>,
   inodes |-> IF present THEN <<Content(0, TRUE)>> ELSE <<>>,
   w |-> [w \in WriterIds |-> IdleWriter],
   rd |-> [k \in ReaderIds |-> IdleReader],
   uuids |-> {}]

\* writeFile(RunFile, version w), first half of fs.writeFile(tmpPath, ...):
\* the temp file is created, or truncated if the name exists
WriteFileOpen(w, uuid, ok) ==
  LET tmp == tmpPath(RunFile, uuid) IN
  /\ disk.w[w].pc = "idle"
  /\ uuid \notin disk.uuids
  /\ disk' =
       IF ~ok
       THEN [disk EXCEPT !.w[w].pc = "failed", !.uuids = @ \cup {uuid}]
       ELSE IF tmp \in DOMAIN disk.names
       THEN [disk EXCEPT
               !.inodes[disk.names[tmp]] = Content(w, FALSE),
               !.w[w] = [pc |-> "open", tmpPath |-> tmp,
                         fd |-> disk.names[tmp]],
               !.uuids = @ \cup {uuid}]
       ELSE [disk EXCEPT
               !.names = (tmp :> (Len(disk.inodes) + 1)) @@ @,
               !.inodes = Append(@, Content(w, FALSE)),
               !.w[w] = [pc |-> "open", tmpPath |-> tmp,
                         fd |-> Len(disk.inodes) + 1],
               !.uuids = @ \cup {uuid}]
  /\ UNCHANGED <<threads, runs, h, sse, aborted, runningTasks, cancels,
                 published, nThreads, now, replies, ctl>>

\* second half of fs.writeFile: the text is written to the open file
WriteFileData(w, ok) ==
  /\ disk.w[w].pc = "open"
  /\ disk' =
       IF ok
       THEN [disk EXCEPT !.inodes[disk.w[w].fd] = Content(w, TRUE),
                         !.w[w].pc = "written"]
       ELSE [disk EXCEPT !.w[w].pc = "failed"]
  /\ UNCHANGED <<threads, runs, h, sse, aborted, runningTasks, cancels,
                 published, nThreads, now, replies, ctl>>

\* fs.rename(tmpPath, filePath): the name filePath is bound to the temp
\* file's inode and the temp name is gone, in one step
WriteFileRename(w, ok) ==
  LET tmp == disk.w[w].tmpPath IN
  /\ disk.w[w].pc = "written"
  /\ disk' =
       IF ok /\ tmp \in DOMAIN disk.names
       THEN [disk EXCEPT
               !.names = [n \in (DOMAIN disk.names \ {tmp}) \cup {RunFile} |->
                            IF n = RunFile THEN disk.names[tmp]
                            ELSE disk.names[n]],
               !.w[w].pc = "done"]
       ELSE [disk EXCEPT !.w[w].pc = "failed"]
  /\ UNCHANGED <<threads, runs, h, sse, aborted, runningTasks, cancels,
                 published, nThreads, now, replies, ctl>>

\* readFile(RunFile), fs.readFile opening the file: ENOENT gives null
ReadFileOpen(k) ==
  /\ disk.rd[k].pc = "idle"
  /\ disk' =
       IF RunFile \in DOMAIN disk.names
       THEN [disk EXCEPT !.rd[k].pc = "open",
                         !.rd[k].fd = disk.names[RunFile]]
       ELSE [disk EXCEPT !.rd[k].pc = "done",
                         !.rd[k].result = ReturnedNull]
  /\ UNCHANGED <<threads, runs, h, sse, aborted, runningTasks, cancels,
                 published, nThreads, now, replies, ctl>>

\* ... reading the open file, and JSON.parse of what was read
ReadFileData(k) ==
  /\ disk.rd[k].pc = "open"
  /\ disk' = [disk EXCEPT
                !.rd[k].pc = "done",
                !.rd[k].result = JsonParse(disk.inodes[disk.rd[k].fd])]
  /\ UNCHANGED <<threads, runs, h, sse, aborted, runningTasks, cancels,
                 published, nThreads, now, replies, ctl>>

\* ----------------------------------------------------------------- Spec
\* every step of the system, the cancelRun calls being those of C
NextWith(C) ==
  \/ \E r \in RunIds, kind \in Kinds, input \in Inputs, meta \in Metadatas,
        tid \in {NoThreadId, NopeThread} \cup KnownThreads :
       Begin(r, kind, input, tid, meta)
  \/ \E r \in RunIds, ok \in BOOLEAN : AutoCreateThread(r, ok)
  \/ \E r \in RunIds, ok \in BOOLEAN : CreateRun(r, ok)
  \/ \E r \in RunIds, ok \in BOOLEAN : InProgressRead(r, ok)
  \/ \E r \in RunIds, ok \in BOOLEAN : InProgressWrite(r, ok)
  \/ \E r \in RunIds, chunk \in Chunks : ExecYield(r, chunk)
  \/ \E r \in RunIds : ExecFinish(r)
  \/ \E r \in RunIds : ExecRaise(r)
  \/ \E r \in RunIds, ok \in BOOLEAN : CompletedRead(r, ok)
  \/ \E r \in RunIds, ok \in BOOLEAN : CompletedWrite(r, ok)
  \/ \E r \in RunIds, ok \in BOOLEAN : AppendRead(r, ok)
  \/ \E r \in RunIds, ok \in BOOLEAN : AppendWrite(r, ok)
  \/ \E r \in RunIds : SyncReturn(r)
  \/ \E r \in RunIds, ok \in BOOLEAN : FailedRead(r, ok)
  \/ \E r \in RunIds, ok \in BOOLEAN : FailedWrite(r, ok)
  \/ \E r \in RunIds : Finally(r)
  \/ \E r \in RunIds : Disconnect(r)
  \/ \E c \in C, r \in RunIds : CancelBegin(c, r)
  \/ \E c \in C : CancelAwait(c)
  \/ \E c \in C, ok \in BOOLEAN : CancelRead(c, ok)
  \/ \E c \in C, ok \in BOOLEAN : CancelUpdateRead(c, ok)
  \/ \E c \in C, ok \in BOOLEAN : CancelUpdateWrite(c, ok)
  \/ CreateThread

Next == NextWith(CancelIds)

Spec == Init /\ [][Next]_vars


\* the steps of call r: its handler and, for asyncRun, its background task
RunStep(r) ==
  \/ \E ok \in BOOLEAN : AutoCreateThread(r, ok)
  \/ \E ok \in BOOLEAN : CreateRun(r, ok)
  \/ \E ok \in BOOLEAN : InProgressRead(r, ok)
  \/ \E ok \in BOOLEAN : InProgressWrite(r, ok)
  \/ \E chunk \in Chunks : ExecYield(r, chunk)
  \/ ExecFinish(r)
  \/ ExecRaise(r)
  \/ \E ok \in BOOLEAN : CompletedRead(r, ok)
  \/ \E ok \in BOOLEAN : CompletedWrite(r, ok)
  \/ \E ok \in BOOLEAN : AppendRead(r, ok)
  \/ \E ok \in BOOLEAN : AppendWrite(r, ok)
  \/ SyncReturn(r)
  \/ \E ok \in BOOLEAN : FailedRead(r, ok)
  \/ \E ok \in BOOLEAN : FailedWrite(r, ok)
  \/ Finally(r)

\* the steps of cancelRun call c after its first await
CancelStep(c) ==
  \/ CancelAwait(c)
  \/ \E ok \in BOOLEAN : CancelRead(c, ok)
  \/ \E ok \in BOOLEAN : CancelUpdateRead(c, ok)
  \/ \E ok \in BOOLEAN : CancelUpdateWrite(c, ok)

\* The event loop runs every continuation that is ready, every store call
\* comes back, and every execRun generator that is asked for its next
\* chunk answers (yields, returns or raises).
\* The liveness specification has MaxLiveCancels cancelRun calls.
LiveCancelIds == 1..MaxLiveCancels
LiveNext == NextWith(LiveCancelIds)

LiveSpec ==
  /\ Init
  /\ [][LiveNext]_vars
  /\ \A r \in RunIds : WF_vars(RunStep(r))
  /\ \A c \in LiveCancelIds : WF_vars(CancelStep(c))

\* One *Run call over the wider inputs and chunks, with store failures,
\* execRun raising and the client of a streamRun going away; no cancelRun.
WideNext ==
  \/ \E r \in RunIds, kind \in Kinds, input \in WideInputs,
        meta \in Metadatas \cup {Unset},
        tid \in {NoThreadId, NopeThread} \cup KnownThreads :
       Begin(r, kind, input, tid, meta)
  \/ \E r \in RunIds, ok \in BOOLEAN : AutoCreateThread(r, ok)
  \/ \E r \in RunIds, ok \in BOOLEAN : CreateRun(r, ok)
  \/ \E r \in RunIds, ok \in BOOLEAN : InProgressRead(r, ok)
  \/ \E r \in RunIds, ok \in BOOLEAN : InProgressWrite(r, ok)
  \/ \E r \in RunIds, chunk \in WideChunks : ExecYield(r, chunk)
  \/ \E r \in RunIds : ExecFinish(r)
  \/ \E r \in RunIds : ExecRaise(r)
  \/ \E r \in RunIds, ok \in BOOLEAN : CompletedRead(r, ok)
  \/ \E r \in RunIds, ok \in BOOLEAN : CompletedWrite(r, ok)
  \/ \E r \in RunIds, ok \in BOOLEAN : AppendRead(r, ok)
  \/ \E r \in RunIds, ok \in BOOLEAN : AppendWrite(r, ok)
  \/ \E r \in RunIds : SyncReturn(r)
  \/ \E r \in RunIds, ok \in BOOLEAN : FailedRead(r, ok)
  \/ \E r \in RunIds, ok \in BOOLEAN : FailedWrite(r, ok)
  \/ \E r \in RunIds : Finally(r)
  \/ \E r \in RunIds : Disconnect(r)
  \/ CreateThread

WideSpec == InitWith(RunIds, {}) /\ [][WideNext]_vars

\* The handlers that read, cancelRun, and the store API under one *Run
\* call whose store calls succeed: every id is one a client has been
\* shown, or one that names nothing.
StoreCancelIds == 1..MaxLiveCancels

StoreNext ==
  \/ \E r \in RunIds, kind \in Kinds, input \in Inputs, meta \in Metadatas,
        tid \in {NoThreadId, NopeThread} \cup KnownThreads :
       Begin(r, kind, input, tid, meta)
  \/ \E r \in RunIds : AutoCreateThread(r, TRUE)
  \/ \E r \in RunIds : CreateRun(r, TRUE)
  \/ \E r \in RunIds : InProgressRead(r, TRUE)
  \/ \E r \in RunIds : InProgressWrite(r, TRUE)
  \/ \E r \in RunIds, chunk \in Chunks : ExecYield(r, chunk)
  \/ \E r \in RunIds : ExecFinish(r)
  \/ \E r \in RunIds : CompletedRead(r, TRUE)
  \/ \E r \in RunIds : CompletedWrite(r, TRUE)
  \/ \E r \in RunIds : AppendRead(r, TRUE)
  \/ \E r \in RunIds : AppendWrite(r, TRUE)
  \/ \E r \in RunIds : SyncReturn(r)
  \/ \E r \in RunIds : FailedRead(r, TRUE)
  \/ \E r \in RunIds : FailedWrite(r, TRUE)
  \/ \E r \in RunIds : Finally(r)
  \/ \E c \in StoreCancelIds, r \in RunIds \cup {NopeRun} : CancelBegin(c, r)
  \/ \E c \in StoreCancelIds : CancelAwait(c)
  \/ \E c \in StoreCancelIds, ok \in BOOLEAN : CancelRead(c, ok)
  \/ \E c \in StoreCancelIds : CancelUpdateRead(c, TRUE)
  \/ \E c \in StoreCancelIds : CancelUpdateWrite(c, TRUE)
  \/ CreateThread
  \/ \E tid \in KnownThreads \cup {NopeThread}, ok \in BOOLEAN :
       GetThread(tid, ok)
  \/ \E rid \in published \cup {NopeRun}, ok \in BOOLEAN : GetRun(rid, ok)
  \/ \E rid \in published \cup {NopeRun}, ok \in BOOLEAN :
       StoreUpdateRun(rid, [metadata |-> Some("u2")], ok)
  \/ \E tid \in KnownThreads \cup {NopeThread}, ok \in BOOLEAN :
       StoreAppendMessages(tid, <<InputMessageObject(UserHi, tid)>>, ok)

StoreSpec == InitWith(RunIds, StoreCancelIds) /\ [][StoreNext]_vars

\* Two *Run calls on one instance, each taken along its success path (no
\* store failure, execRun does not raise, no cancelRun, the client stays):
\* the calls overlap in every order the awaits allow, and the second may
\* name the thread of the first.
PairRunIds == 1..MaxPairRuns

PairInit == InitWith(PairRunIds, {})

PairNext ==
  \/ \E r \in PairRunIds, kind \in Kinds, input \in Inputs,
        meta \in Metadatas, tid \in {NoThreadId} \cup KnownThreads :
       Begin(r, kind, input, tid, meta)
  \/ \E r \in PairRunIds : AutoCreateThread(r, TRUE)
  \/ \E r \in PairRunIds : CreateRun(r, TRUE)
  \/ \E r \in PairRunIds : InProgressRead(r, TRUE)
  \/ \E r \in PairRunIds : InProgressWrite(r, TRUE)
  \/ \E r \in PairRunIds, chunk \in Chunks : ExecYield(r, chunk)
  \/ \E r \in PairRunIds : ExecFinish(r)
  \/ \E r \in PairRunIds : CompletedRead(r, TRUE)
  \/ \E r \in PairRunIds : CompletedWrite(r, TRUE)
  \/ \E r \in PairRunIds : AppendRead(r, TRUE)
  \/ \E r \in PairRunIds : AppendWrite(r, TRUE)
  \/ \E r \in PairRunIds : SyncReturn(r)
  \/ \E r \in PairRunIds : Finally(r)
  \/ CreateThread

PairSpec == PairInit /\ [][PairNext]_vars

\* the file store's operations on paths: a store constructed over any of
\* the data directories, records created, ids of every shape looked up
PathInit ==
  /\ ServingWith({}, {})
  /\ \E d \in DataDirs : disk = NoDisk(d)
  /\ ctl = ReadyCtl

PathNext ==
  \/ \E op \in {"createThread", "createRun"} : PathCreate(op)
  \/ \E op \in {"getThread", "getRun", "updateRun", "appendMessages"},
        id \in PathIds : PathCall(op, id)

PathSpec == PathInit /\ [][PathNext]_vars

\* The same request served twice by the same execRun: call 1 is a syncRun,
\* the later calls are streamRun calls with the input of call 1, made once
\* call 1 is over, and their generator yields what the generator of call 1
\* yielded. No store call fails, no cancelRun, no client goes away.
TwinInit == InitWith(PairRunIds, {})

\* the chunk the generator of call r yields next, being the same generator
\* as that of call 1
Replayed(r) == h[1].yieldedChunks[Len(h[r].yieldedChunks) + 1]

TwinNext ==
  \/ \E input \in WideInputs, meta \in Metadatas \cup {Unset} :
       Begin(1, "sync", input, NoThreadId, meta)
  \/ \E r \in PairRunIds \ {1} :
       /\ h[1].pc = "done"
       /\ Begin(r, "stream", h[1].input, NoThreadId, h[1].metadata)
  \/ \E r \in PairRunIds : AutoCreateThread(r, TRUE)
  \/ \E r \in PairRunIds : CreateRun(r, TRUE)
  \/ \E r \in PairRunIds : InProgressRead(r, TRUE)
  \/ \E r \in PairRunIds : InProgressWrite(r, TRUE)
  \/ \E chunk \in WideChunks : ExecYield(1, chunk)
  \/ \E r \in PairRunIds \ {1} :
       /\ Len(h[r].yieldedChunks) < Len(h[1].yieldedChunks)
       /\ ExecYield(r, Replayed(r))
  \/ ExecFinish(1)
  \/ \E r \in PairRunIds \ {1} :
       /\ Len(h[r].yieldedChunks) = Len(h[1].yieldedChunks)
       /\ ExecFinish(r)
  \/ \E r \in PairRunIds : CompletedRead(r, TRUE)
  \/ \E r \in PairRunIds : CompletedWrite(r, TRUE)
  \/ \E r \in PairRunIds : AppendRead(r, TRUE)
  \/ \E r \in PairRunIds : AppendWrite(r, TRUE)
  \/ SyncReturn(1)

TwinSpec == TwinInit /\ [][TwinNext]_vars

\* writeFile and readFile calls on one record file, the writes failing at
\* any of their steps
FileInit ==
  /\ ServingWith({}, {})
  /\ \E present \in BOOLEAN : disk = FileDisk(present)
  /\ ctl = ReadyCtl

FileNext ==
  \/ \E w \in WriterIds, uuid \in Uuids, ok \in BOOLEAN :
       WriteFileOpen(w, uuid, ok)
  \/ \E w \in WriterIds, ok \in BOOLEAN : WriteFileData(w, ok)
  \/ \E w \in WriterIds, ok \in BOOLEAN : WriteFileRename(w, ok)
  \/ \E k \in ReaderIds : ReadFileOpen(k)
  \/ \E k \in ReaderIds : ReadFileData(k)

FileSpec == FileInit /\ [][FileNext]_vars

\* the prototypes the decorator layer hands to the enhancer: all stubs,
\* nothing defined, everything user-defined, and a mixture (one of the
\* user's functions carrying the marker)
ProtoChoices ==
  {[n \in AGENT_METHOD_NAMES |-> Stub],
   [n \in AGENT_METHOD_NAMES |-> Missing],
   [n \in AGENT_METHOD_NAMES |-> UserMethod(n)],
   [n \in AGENT_METHOD_NAMES |->
      CASE n = "syncRun" -> UserMethod(n)
        [] n = "createThread" -> Missing
        [] n = "getRun" -> Method("user", n, TRUE)
        [] OTHER -> Stub]}

\* a class fresh from the decorator layer and one instance of it: the
\* enhancer, init(), asyncRun calls with every failure, destroy()
LifeInit ==
  /\ ServingWith(RunIds, {})
  /\ disk = NoDisk(Path(FALSE, <<"data">>))
  /\ \E marked \in BOOLEAN, proto \in ProtoChoices, userInit \in BOOLEAN,
        userDestroy \in BOOLEAN, storeKind \in StoreKinds :
       ctl = NewCtl(marked, proto, userInit, userDestroy, storeKind)

\* the instance serves asyncRun with the default handler
ServesAsync ==
  /\ ctl.pc = "ready"
  /\ ctl.store # "none"
  /\ ctl.proto["asyncRun"].fn = "default"

LifeNext ==
  \/ Enhance
  \/ InitCall
  \/ InitObtain
  \/ InitStore
  \/ InitUser
  \/ DestroyCall
  \/ DestroySettled
  \/ DestroyStore
  \/ DestroyUser
  \/ \E r \in RunIds, input \in Inputs, meta \in Metadatas,
        tid \in {NoThreadId, NopeThread} :
       ServesAsync /\ Begin(r, "async", input, tid, meta)
  \/ \E r \in RunIds, ok \in BOOLEAN : AutoCreateThread(r, ok)
  \/ \E r \in RunIds, ok \in BOOLEAN : CreateRun(r, ok)
  \/ \E r \in RunIds, ok \in BOOLEAN : InProgressRead(r, ok)
  \/ \E r \in RunIds, ok \in BOOLEAN : InProgressWrite(r, ok)
  \/ \E r \in RunIds, chunk \in Chunks : ExecYield(r, chunk)
  \/ \E r \in RunIds : ExecFinish(r)
  \/ \E r \in RunIds : ExecRaise(r)
  \/ \E r \in RunIds, ok \in BOOLEAN : CompletedRead(r, ok)
  \/ \E r \in RunIds, ok \in BOOLEAN : CompletedWrite(r, ok)
  \/ \E r \in RunIds, ok \in BOOLEAN : AppendRead(r, ok)
  \/ \E r \in RunIds, ok \in BOOLEAN : AppendWrite(r, ok)
  \/ \E r \in RunIds, ok \in BOOLEAN : FailedRead(r, ok)
  \/ \E r \in RunIds, ok \in BOOLEAN : FailedWrite(r, ok)
  \/ \E r \in RunIds : Finally(r)

LifeSpec == LifeInit /\ [][LifeNext]_vars

\* ================================================================ claims
Live(status) == status \in {"queued", "in_progress"}
IsAsync(r) == h[r].kind = "async"
CancelCalled(c) == cancels[c].pc # "idle"
CancelReturned(c) ==
  cancels[c].pc = "done" /\ cancels[c].result.type = "run"
CancelStoreFailed(c) ==
  cancels[c].pc = "done" /\ cancels[c].result = Raised(IoError)

\* C1: once the stored status of a run is completed, failed, cancelled or
\* expired, no later store write changes it to a different value.
C1_TerminalSticky ==
  [][\A r \in DOMAIN runs :
       runs[r].status \in TERMINAL_RUN_STATUSES
         => runs'[r].status = runs[r].status]_vars

\* C2: a cancelRun called on an asyncRun run whose stored status is queued
\* or in_progress returns a run with status cancelled, it does not raise,
\* and the stored status is then cancelled.  Stated for the runs in which
\* no store call fails and execRun does not raise, where nothing but the
\* point at which the cancel arrives can decide the outcome.
C2_CancelLiveSucceeds ==
  \A c \in CancelIds :
    (/\ cancels[c].pc = "done"
     /\ IsAsync(cancels[c].run)
     /\ Live(cancels[c].statusAtCall)
     /\ ~CancelStoreFailed(c)
     /\ h[cancels[c].run].err = "")
    => /\ CancelReturned(c)
       /\ cancels[c].result.run.status = "cancelled"
       /\ runs[cancels[c].run].status = "cancelled"

\* C3: a cancelRun that finds the task registered aborts the token before
\* it waits, reads and writes the run only after the task has settled, and
\* the background task never writes once the run is cancelled.
C3_AbortAwaitThenWrite ==
  /\ \A c \in CancelIds :
       cancels[c].awaited =>
         /\ aborted[cancels[c].run]
         /\ cancels[c].pc # "wait" =>
              /\ h[cancels[c].run].pc = "done"
              /\ cancels[c].run \notin runningTasks
  /\ \A r \in DOMAIN runs :
       (IsAsync(r) /\ runs[r].status = "cancelled") => h[r].pc = "done"

C3_Witness ==
  \E c \in CancelIds :
    /\ cancels[c].awaited
    /\ CancelReturned(c)
    /\ runs[cancels[c].run].status = "cancelled"
    /\ runs[cancels[c].run].started_at # 0

Rank(status) ==
  CASE status = "queued" -> 0
    [] status = "in_progress" -> 1
    [] OTHER -> 2

\* C4: a run is created as queued and its stored status only moves forward,
\* queued, in_progress, one terminal status: it never goes back and never
\* changes once terminal.
C4_StatusMonotone ==
  [][/\ \A r \in DOMAIN runs' \ DOMAIN runs : runs'[r].status = "queued"
     /\ \A r \in DOMAIN runs :
          /\ Rank(runs'[r].status) >= Rank(runs[r].status)
          /\ Rank(runs[r].status) = 2 => runs'[r].status = runs[r].status
    ]_vars

C6_CancelledRecord ==
  \A c \in CancelIds :
    (CancelReturned(c) /\ IsAsync(cancels[c].run)) =>
      LET run == runs[cancels[c].run] IN
      /\ run.status = "cancelled"
      /\ run.cancelled_at # 0
      /\ run.completed_at = 0
      /\ run.output = Unset
      /\ ThreadExists(run.thread_id) =>
           \A i \in 1..Len(threads[run.thread_id].messages) :
             threads[run.thread_id].messages[i].run_id # run.id

\* a chunk was collected, the abort came, and the next chunk was dropped
C6_Witness ==
  \E c \in CancelIds :
    /\ CancelReturned(c)
    /\ IsAsync(cancels[c].run)
    /\ cancels[c].awaited
    /\ Len(h[cancels[c].run].streamMessages) = 1
    /\ h[cancels[c].run].yielded = 2

\* C7: asyncRun returns queued at the step that creates the run, with the
\* task registered and before execRun has been asked for anything.
C7_AsyncReturnsQueued ==
  [][\A r \in RunIds :
       (IsAsync(r) /\ h[r].result = NoResult /\ h'[r].result.type = "run")
       => /\ h'[r].result.run.status = "queued"
          /\ h'[r].result.run.id = r
          /\ r \in runningTasks'
          /\ h'[r].pc = "ip_read"
          /\ h'[r].yielded = 0
          /\ runs'[r].status = "queued"]_vars

C7_Witness ==
  \E r \in RunIds :
    /\ IsAsync(r)
    /\ h[r].result.type = "run"
    /\ h[r].pc = "ip_read"
    /\ r \in runningTasks

\* C9: a run id is in the registry exactly while its asyncRun task has
\* started and not finished; a removed entry is never put back, and a
\* syncRun or streamRun run is never in the registry.
TaskRunning(r) == IsAsync(r) /\ RunExists(r) /\ h[r].pc # "done"

C9_RegistryExact ==
  /\ [](\A r \in RunIds : r \in runningTasks <=> TaskRunning(r))
  /\ [][\A r \in RunIds :
          (RunExists(r) /\ r \notin runningTasks) => r \notin runningTasks'
       ]_vars

\* the task left through its catch clause and its entry is gone
C9_Witness ==
  \E r \in RunIds :
    /\ IsAsync(r)
    /\ h[r].pc = "done"
    /\ h[r].err = IoError
    /\ r \notin runningTasks

\* C10: when syncRun has returned, the stored run is completed with the
\* collected output, usage and completed_at, and the thread got the
\* non-system input messages in input order, then the output messages.
NonSystem(input) == SelectSeq(input, LAMBDA m : m.role # "system")

C10_ExpectedInputs(r) ==
  LET ns == NonSystem(h[r].input) IN
  [i \in 1..Len(ns) |->
     [object |-> "thread.message", run_id |-> 0, thread_id |-> h[r].threadId,
      role |-> ns[i].role, status |-> "completed",
      content |-> IF ns[i].content.kind = "string"
                  THEN <<TextBlock(ns[i].content.value)>>
                  ELSE [j \in 1..Len(ns[i].content.parts) |->
                          TextBlock(ns[i].content.parts[j].text)]]]

C10_ExpectedOutput(r) ==
  LET withMsg == SelectSeq(h[r].streamMessages,
                           LAMBDA ch : ch.message # Unset) IN
  [i \in 1..Len(withMsg) |->
     [object |-> "thread.message", run_id |-> r, thread_id |-> 0,
      role |-> "assistant", status |-> "completed",
      content |-> toContentBlocks(withMsg[i].message)]]

RECURSIVE C10_Tokens(_, _)
C10_Tokens(chunks, field) ==
  IF chunks = <<>> THEN 0
  ELSE LET u == Head(chunks).usage IN
       (IF u = Unset \/ u[1][field] = Unset THEN 0 ELSE u[1][field][1])
       + C10_Tokens(Tail(chunks), field)

C10_ExpectedUsage(r) ==
  LET chunks == h[r].streamMessages
      p == C10_Tokens(chunks, "prompt_tokens")
      c == C10_Tokens(chunks, "completion_tokens")
  IN IF \A i \in 1..Len(chunks) : chunks[i].usage = Unset THEN Unset
     ELSE Some([prompt_tokens |-> p, completion_tokens |-> c,
                total_tokens |-> p + c])

IsSuffix(suffix, seq) ==
  /\ Len(suffix) <= Len(seq)
  /\ SubSeq(seq, Len(seq) - Len(suffix) + 1, Len(seq)) = suffix

C10_SyncSuccess ==
  \A r \in RunIds :
    (h[r].kind = "sync" /\ h[r].result.type = "run") =>
      /\ runs[r].status = "completed"
      /\ runs[r].output = Some(C10_ExpectedOutput(r))
      /\ runs[r].usage = C10_ExpectedUsage(r)
      /\ h[r].result.run.usage = runs[r].usage
      /\ runs[r].completed_at # 0
      /\ h[r].result.run.status = "completed"
      /\ h[r].result.run.output = runs[r].output
      /\ IsSuffix(C10_ExpectedInputs(r) \o C10_ExpectedOutput(r),
                  threads[h[r].threadId].messages)

C10_Witness ==
  \E r \in RunIds :
    /\ h[r].kind = "sync"
    /\ h[r].result.type = "run"
    /\ Len(h[r].streamMessages) = 2
    /\ Len(threads[h[r].threadId].messages) = 4


\* C8: an asyncRun run that nobody cancels, whose execRun ends without
\* raising and whose store calls all work, is eventually stored as
\* completed with the output of its chunks, its thread eventually holds the
\* appended messages, and its registry entry is eventually gone.
C8_Excused(r) ==
  \/ \E c \in CancelIds : CancelCalled(c) /\ cancels[c].run = r
  \/ h[r].err # ""

C8_Stored(r) ==
  /\ RunExists(r)
  /\ runs[r].status = "completed"
  /\ runs[r].output = Some(C10_ExpectedOutput(r))
  /\ runs[r].completed_at # 0

C8_ThreadHolds(r) ==
  /\ ThreadExists(h[r].threadId)
  /\ IsSuffix(C10_ExpectedInputs(r) \o C10_ExpectedOutput(r),
              threads[h[r].threadId].messages)

C8_AsyncCompletes ==
  \A r \in RunIds :
    /\ TaskRunning(r) ~> (C8_Excused(r) \/ C8_Stored(r))
    /\ TaskRunning(r) ~> (C8_Excused(r) \/ (h[r].pc = "finally" /\ C8_ThreadHolds(r)))
    /\ TaskRunning(r) ~> (C8_Excused(r) \/ (C8_Stored(r) /\ r \notin runningTasks))

C8_Witness ==
  \E r \in RunIds :
    /\ IsAsync(r)
    /\ ~C8_Excused(r)
    /\ h[r].pc = "done"
    /\ C8_Stored(r)
    /\ C8_ThreadHolds(r)
    /\ Len(h[r].streamMessages) = 2
    /\ r \notin runningTasks

\* the chunks of a drained sequence that carry a message
WithMessage(chunks) == SelectSeq(chunks, LAMBDA ch : ch.message # Unset)

SyncReturned(r) == h[r].kind = "sync" /\ h[r].result.type = "run"

\* N + (number of output messages) of syncRun call r
C11_Count(r) ==
  Len(NonSystem(h[r].input)) + Len(WithMessage(h[r].streamMessages))

\* C11 as the specification states it: when a syncRun whose input has N
\* non-system messages returns, its thread holds exactly N + (number of
\* output messages) messages.
C11_ThreadCountExact ==
  [][\A r \in DOMAIN h :
       (h[r].kind = "sync" /\ h[r].pc = "ret" /\ h'[r].pc = "done")
         => Len(threads'[h[r].threadId].messages) = C11_Count(r)]_vars

\* C11 amended: the append of a completing syncRun writes the thread as the
\* messages it read followed by exactly N + (number of output messages)
\* new ones; and a thread that no other run has used holds exactly
\* N + (number of output messages) messages once the call has returned.
C11_ThreadGrowth ==
  /\ [][\A r \in DOMAIN h :
          (h[r].kind = "sync" /\ h[r].pc = "app_write" /\ h'[r].pc = "ret")
            => LET msgs == threads'[h[r].threadId].messages IN
               /\ Len(msgs) = Len(h[r].tsnap) + C11_Count(r)
               /\ SubSeq(msgs, 1, Len(h[r].tsnap)) = h[r].tsnap]_vars
  /\ [](\A r \in DOMAIN h :
          (/\ SyncReturned(r)
           /\ \A q \in DOMAIN h \ {r} : h[q].threadId # h[r].threadId)
            => Len(threads[h[r].threadId].messages) = C11_Count(r))

\* a syncRun has returned on a thread that already held messages
C11_Witness ==
  \E r \in DOMAIN h :
    /\ SyncReturned(r)
    /\ C11_Count(r) = 3
    /\ Len(threads[h[r].threadId].messages) = 6

\* C12: whatever roles the inputs and the chunks carry, no stored thread
\* message has role system: every one has role user or assistant.
C12_NoSystemInThreads ==
  \A t \in DOMAIN threads :
    \A i \in 1..Len(threads[t].messages) :
      threads[t].messages[i].role \in {"user", "assistant"}

\* a run whose input has a system message, and which was given a chunk
\* whose message has role system, has appended to its thread
C12_Witness ==
  \E r \in DOMAIN h :
    /\ \E i \in 1..Len(h[r].input) : h[r].input[i].role = "system"
    /\ \E i \in 1..Len(h[r].yieldedChunks) :
         /\ h[r].yieldedChunks[i].message # Unset
         /\ h[r].yieldedChunks[i].message[1].role = "system"
    /\ ThreadExists(h[r].threadId)
    /\ Len(threads[h[r].threadId].messages) >= 3

\* syncRun call r is over, execRun raised in it, and the store did not fail
\* while the failure was recorded
SyncExecFailed(r) ==
  /\ h[r].kind = "sync"
  /\ h[r].pc = "done"
  /\ h[r].err = ExecError
  /\ h[r].result # Raised(IoError)

Events(r) == [i \in 1..Len(sse[r].frames) |-> sse[r].frames[i].event]

\* streamRun call r is over and took its success path: nothing was caught
\* and nothing left the handler as an error
StreamSucceeded(r) ==
  /\ h[r].kind = "stream"
  /\ h[r].pc = "done"
  /\ h[r].err = ""
  /\ h[r].result = NoResult

\* C14: on a success path of streamRun the frames are thread.run.created,
\* thread.run.in_progress, thread.message.created, zero or more
\* thread.message.delta, thread.message.completed, thread.run.completed,
\* done, in this order; and nothing is written after a done frame.
C14_FrameOrder ==
  /\ [](\A r \in DOMAIN h :
          StreamSucceeded(r) =>
            LET e == Events(r)
                n == Len(e)
            IN /\ n >= 6
               /\ SubSeq(e, 1, 3) = <<"thread.run.created",
                                      "thread.run.in_progress",
                                      "thread.message.created">>
               /\ \A i \in 4..(n - 3) : e[i] = "thread.message.delta"
               /\ SubSeq(e, n - 2, n) = <<"thread.message.completed",
                                          "thread.run.completed", "done">>)
  /\ [][\A r \in DOMAIN h :
          (Len(sse[r].frames) > 0 /\ Events(r)[Len(sse[r].frames)] = "done")
            => sse'[r].frames = sse[r].frames]_vars

\* a streamRun has succeeded after two delta frames
C14_Witness ==
  \E r \in DOMAIN h :
    /\ StreamSucceeded(r)
    /\ Len(sse[r].frames) = 8
    /\ sse[r].ended

\* the content blocks of a chunk's message: the string as one text block,
\* or one text block for each part of type text
BlocksOf(chunk) ==
  LET content == chunk.message[1].content
      texts == SelectSeq(content.parts, LAMBDA p : p.type = "text")
  IN IF content.kind = "string" THEN <<TextBlock(content.value)>>
     ELSE [i \in 1..Len(texts) |-> TextBlock(texts[i].text)]

\* the payloads of the delta frames written so far, in order
Deltas(r) ==
  LET fs == SelectSeq(sse[r].frames,
                      LAMBDA f : f.event = "thread.message.delta")
  IN [i \in 1..Len(fs) |-> fs[i].data.content]

\* one payload for each chunk with a message, in order
DeltasFor(chunks) ==
  LET ws == WithMessage(chunks) IN [i \in 1..Len(ws) |-> BlocksOf(ws[i])]

\* the chunks the loop of call r has taken in: all that execRun yielded,
\* but for the one the abort check discarded
Consumed(r) ==
  IF h[r].discarded
  THEN SubSeq(h[r].yieldedChunks, 1, Len(h[r].yieldedChunks) - 1)
  ELSE h[r].yieldedChunks

\* C15 as stated: the delta frames of a streamRun are, in order, one for
\* each chunk with a message that execRun has yielded, carrying that
\* chunk's content blocks; chunks without a message add none.
C15_DeltaPerYieldedChunk ==
  \A r \in DOMAIN h :
    h[r].kind = "stream" => Deltas(r) = DeltasFor(h[r].yieldedChunks)

\* C15 amended: the delta frames of a streamRun are, in order, one for
\* each chunk with a message that execRun has yielded while the client was
\* connected, carrying that chunk's content blocks; chunks without a
\* message add none, and the chunk received after the client has gone away
\* is discarded without a frame.
C15_DeltaPerConsumedChunk ==
  \A r \in DOMAIN h :
    h[r].kind = "stream" => Deltas(r) = DeltasFor(Consumed(r))

\* a streamRun wrote a delta for a first chunk, the client went away, and
\* the next chunk, which has a message, was discarded
C15_Witness ==
  \E r \in DOMAIN h :
    /\ h[r].kind = "stream"
    /\ h[r].discarded
    /\ Len(h[r].yieldedChunks) = 2
    /\ h[r].yieldedChunks[2].message # Unset
    /\ Len(Deltas(r)) = 1

\* streamRun call r is over and execRun raised in it
StreamExecFailed(r) ==
  /\ h[r].kind = "stream"
  /\ h[r].pc = "done"
  /\ h[r].err = ExecError

\* how many frames of call r carry the event
CountEvent(r, event) ==
  Len(SelectSeq(sse[r].frames, LAMBDA f : f.event = event))

\* C16: when execRun raises during streamRun no thread.message.completed
\* and no thread.run.completed frame is written; exactly one
\* thread.run.failed frame is written, carrying last_error {code
\* EXEC_ERROR, message of the error}, and the done frame follows it; this
\* is so whether or not the store update to failed succeeds.
C16_StreamExecError ==
  \A r \in DOMAIN h :
    StreamExecFailed(r) =>
      LET fs == sse[r].frames
          n == Len(fs)
      IN /\ CountEvent(r, "thread.message.completed") = 0
         /\ CountEvent(r, "thread.run.completed") = 0
         /\ CountEvent(r, "thread.run.failed") = 1
         /\ CountEvent(r, "done") = 1
         /\ n >= 5
         /\ fs[n] = DoneFrame
         /\ fs[n - 1].event = "thread.run.failed"
         /\ fs[n - 1].data.status = "failed"
         /\ fs[n - 1].data.last_error =
              Some([code |-> "EXEC_ERROR", message |-> ExecError])
         /\ fs[n - 1].data.failed_at # 0
         /\ sse[r].ended
         /\ h[r].result = NoResult

\* execRun raised in a streamRun after a delta, and the store update to
\* failed did not go through
C16_Witness ==
  \E r \in DOMAIN h :
    /\ StreamExecFailed(r)
    /\ runs[r].status = "in_progress"
    /\ CountEvent(r, "thread.message.delta") >= 1

\* all content blocks of the chunks, in order
RECURSIVE AllBlocks(_)
AllBlocks(chunks) ==
  IF chunks = <<>> THEN <<>>
  ELSE (IF Head(chunks).message # Unset THEN BlocksOf(Head(chunks))
        ELSE <<>>) \o AllBlocks(Tail(chunks))

\* the output of streamRun call r: one message holding every block, or
\* nothing when there is no block
C17_ExpectedOutput(r) ==
  LET blocks == AllBlocks(Consumed(r)) IN
  IF blocks = <<>> THEN <<>>
  ELSE <<[object |-> "thread.message", run_id |-> r, thread_id |-> 0,
          role |-> "assistant", status |-> "completed",
          content |-> blocks]>>

\* C17: the output in the thread.run.completed frame of a streamRun, and
\* in the run it has stored as completed, is the one message with all
\* content blocks accumulated over the chunks when there is at least one
\* block, and the empty list when there is none.
C17_StreamOutput ==
  \A r \in DOMAIN h :
    h[r].kind = "stream" =>
      /\ \A i \in 1..Len(sse[r].frames) :
           sse[r].frames[i].event = "thread.run.completed"
             => sse[r].frames[i].data.output = Some(C17_ExpectedOutput(r))
      /\ (RunExists(r) /\ runs[r].status = "completed")
           => runs[r].output = Some(C17_ExpectedOutput(r))

\* a streamRun has written thread.run.completed with one message that holds
\* the blocks of two chunks
C17_Witness ==
  \E r \in DOMAIN h :
    /\ StreamSucceeded(r)
    /\ runs[r].status = "completed"
    /\ Len(runs[r].output[1]) = 1
    /\ Len(runs[r].output[1][1].content) = 2
    /\ Len(WithMessage(h[r].yieldedChunks)) = 2

\* the usage of a drained chunk sequence: none when no chunk carries
\* usage, else the sums of the token counts, a missing count being 0
UsageOf(chunks) ==
  LET p == C10_Tokens(chunks, "prompt_tokens")
      c == C10_Tokens(chunks, "completion_tokens")
  IN IF \A i \in 1..Len(chunks) : chunks[i].usage = Unset THEN Unset
     ELSE Some([prompt_tokens |-> p, completion_tokens |-> c,
                total_tokens |-> p + c])

C19_ThreadRoundTrip ==
  \A i \in 1..Len(replies.got) :
    LET g == replies.got[i] IN
    (/\ g.call = "getThread"
     /\ g.id \in DOMAIN replies.created
     /\ g.result.type = "thread"
     /\ \A r \in DOMAIN h : h[r].threadId # g.id
     /\ \A j \in 1..(i - 1) : replies.got[j].call # "appendMessages")
    => LET created == replies.created[g.id]
           got == g.result.thread
       IN /\ got.id = created.id
          /\ got.created_at = created.created_at
          /\ got.metadata = created.metadata
          /\ got.messages = <<>>
          /\ created.id = g.id
          /\ created.created_at > 0
          /\ created.metadata = EmptyObject

\* getThread has answered for a thread that createThread made and that no
\* run has used, while a run on another thread has appended its messages
C19_Witness ==
  \E i \in 1..Len(replies.got) :
    /\ replies.got[i].call = "getThread"
    /\ replies.got[i].id \in DOMAIN replies.created
    /\ replies.got[i].result.type = "thread"
    /\ \A r \in DOMAIN h : h[r].kind # "none" /\ h[r].threadId # replies.got[i].id

\* the store's error for a record that is missing
C20_Message(call, id) ==
  (IF call \in {"getThread", "appendMessages"} THEN "Thread " ELSE "Run ")
  \o ToString(id) \o " not found"

\* the record that the call would read does not exist
C20_Missing(call, id) ==
  IF call \in {"getThread", "appendMessages"}
  THEN ~ThreadExists(id) ELSE ~RunExists(id)

\* C20: getThread, getRun, updateRun and appendMessages called with an id
\* that names no record, and cancelRun likewise, fail with
\* '<Entity> <id> not found' and leave the store as it is; so does the
\* appendMessages of a run whose thread_id names no thread: its error is
\* what the handler's catch receives (the catch of an aborted asyncRun
\* task drops it).  No record ever appears under such an id.  (An I/O failure of the read is the
\* store's own error.)
C20_NotFound ==
  /\ [][Len(replies'.got) > Len(replies.got) =>
          LET g == replies'.got[Len(replies'.got)] IN
          (C20_Missing(g.call, g.id) /\ g.result # Raised(IoError))
            => /\ g.result = Raised(C20_Message(g.call, g.id))
               /\ threads' = threads
               /\ runs' = runs]_vars
  /\ [][\A c \in DOMAIN cancels :
          (/\ cancels[c].pc = "read"
           /\ cancels'[c].pc = "done"
           /\ ~RunExists(cancels[c].run)
           /\ cancels'[c].result # Raised(IoError))
            => /\ cancels'[c].result =
                    Raised(C20_Message("cancelRun", cancels[c].run))
               /\ threads' = threads
               /\ runs' = runs]_vars
  /\ [][\A r \in DOMAIN h :
          (/\ h[r].pc = "app_read"
           /\ h'[r].pc # "app_read"
           /\ ~ThreadExists(h[r].threadId))
            => /\ h'[r].pc = "fail_read" =>
                    h'[r].err = C20_Message("appendMessages", h[r].threadId)
               /\ h'[r].pc \in {"fail_read", "finally"}
               /\ threads' = threads
               /\ runs' = runs]_vars
  /\ [](NopeRun \notin DOMAIN runs /\ NopeThread \notin DOMAIN threads)

\* cancelRun and a direct updateRun have both failed on an id that names
\* no run
C20_Witness ==
  /\ \E c \in DOMAIN cancels :
       /\ cancels[c].pc = "done"
       /\ cancels[c].run = NopeRun
       /\ cancels[c].result = Raised(C20_Message("cancelRun", NopeRun))
  /\ \E i \in 1..Len(replies.got) :
       /\ replies.got[i].call = "updateRun"
       /\ replies.got[i].id = NopeRun
       /\ replies.got[i].result.type = "raised"
       /\ replies.got[i].result.message # IoError

\* the store's updateRun has been called directly on run r (not by a handler)
DirectlyUpdated(r) ==
  \E i \in 1..Len(replies.got) :
    /\ replies.got[i].call = "updateRun"
    /\ replies.got[i].id = r

\* the frames of stream r whose data is a RunObject
RunFrames(r) ==
  {i \in 1..Len(sse[r].frames) :
     sse[r].frames[i].event \in
       {"thread.run.created", "thread.run.in_progress",
        "thread.run.completed", "thread.run.failed"}}

\* C21: the metadata given to syncRun, asyncRun or streamRun is the
\* metadata of the RunObject the call returns or streams, of the record
\* createRun stores, and of that record after every update the handlers
\* and cancelRun make (in_progress, completed, failed, cancelled); getRun
\* returns it.  (A run that the store's updateRun has been called on
\* directly is left out.)
C21_MetadataKept ==
  /\ \A r \in DOMAIN runs :
       ~DirectlyUpdated(r) => runs[r].metadata = h[r].metadata
  /\ \A r \in DOMAIN h :
       /\ h[r].result.type = "run" => h[r].result.run.metadata = h[r].metadata
       /\ \A i \in RunFrames(r) :
            sse[r].frames[i].data.metadata = h[r].metadata
  /\ \A i \in 1..Len(replies.got) :
       LET g == replies.got[i] IN
       (/\ g.call = "getRun"
        /\ g.result.type = "run"
        /\ \A j \in 1..(i - 1) :
             ~(replies.got[j].call = "updateRun" /\ replies.got[j].id = g.id))
         => g.result.run.metadata = h[g.id].metadata

\* getRun has returned the metadata of a run that has been updated to a
\* terminal status
C21_Witness ==
  \E i \in 1..Len(replies.got) :
    LET g == replies.got[i] IN
    /\ g.call = "getRun"
    /\ g.result.type = "run"
    /\ g.result.run.status \in TERMINAL_RUN_STATUSES
    /\ g.result.run.metadata = Some("u1")
    /\ h[g.id].metadata = Some("u1")

\* run r has got past its appendMessages
Appended(r) ==
  /\ h[r].kind # "none"
  /\ h[r].pc \in {"ret", "finally", "done"}
  /\ h[r].err = ""

\* the thread of run r holds an output message of run r
HoldsOutputOf(r) ==
  \E i \in 1..Len(threads[h[r].threadId].messages) :
    /\ "run_id" \in DOMAIN threads[h[r].threadId].messages[i]
    /\ threads[h[r].threadId].messages[i].run_id = r

\* C22: appendMessages is an unsynchronised read-modify-write: its write
\* stores the messages its own getThread read followed by the new ones,
\* whatever has been written to the thread since that read.  (The witness
\* is the interleaving of two runs on one thread after which the thread
\* lacks the messages of one of them.)
C22_AppendWritesSnapshot ==
  [][\A r \in DOMAIN h :
       (h[r].pc = "app_write" /\ h'[r].pc # "app_write" /\ h'[r].err = "")
         => threads'[h[r].threadId].messages =
              h[r].tsnap \o AppendedMessages(r)]_vars

\* two runs on the same thread have both appended their messages and the
\* thread holds the output of only one of them
C22_Witness ==
  \E r, q \in DOMAIN h :
    /\ r # q
    /\ h[r].threadId = h[q].threadId
    /\ Appended(r) /\ Appended(q)
    /\ Len(h[r].output) > 0 /\ Len(h[q].output) > 0
    /\ HoldsOutputOf(r)
    /\ ~HoldsOutputOf(q)

\* the working directory of the process
Cwd == <<"home">>

\* the place in the file system that a path names
Resolve(p) ==
  normalizeString(IF p.abs THEN p.segs ELSE Cwd \o p.segs, FALSE, <<>>)

\* path p names a place strictly inside directory dir
Inside(p, dir) ==
  /\ Len(Resolve(p)) > Len(Resolve(dir))
  /\ SubSeq(Resolve(p), 1, Len(Resolve(dir))) = Resolve(dir)

\* C23: a store operation given the empty id, or an id whose joined path
\* <base>/<id>.json is not strictly inside the base directory, fails
\* with an 'Invalid id' error and reads and writes no file; every file
\* the store reads or writes is strictly inside the base directory of
\* the operation.
C23_SafePath ==
  /\ [](\A i \in 1..Len(disk.io) :
          Inside(disk.io[i].path, DirOf(disk.io[i].op, disk.dataDir)))
  /\ [][Len(disk'.calls) > Len(disk.calls) =>
          LET c == disk'.calls[Len(disk'.calls)]
              dir == DirOf(c.op, disk.dataDir)
          IN (c.id = EmptyId \/ ~Inside(join(dir, WithJson(c.id)), dir))
               => /\ c.result.type = "raised"
                  /\ c.result.message =
                       (IF c.id = EmptyId
                        THEN "Invalid id: id must not be empty"
                        ELSE "Invalid id: " \o IdString(c.id))
                  /\ disk'.io = disk.io
                  /\ disk'.files = disk.files]_vars

\* a run's file exists and getThread has been refused the id that leads
\* from threads/ to it, nothing but the creation having touched a file
C23_Witness ==
  /\ join(runsDir(disk.dataDir), <<"r1.json">>) \in disk.files
  /\ \E i \in 1..Len(disk.calls) :
       /\ disk.calls[i].op = "getThread"
       /\ disk.calls[i].id = <<"..", "runs", "r1">>
       /\ disk.calls[i].result.type = "raised"
       /\ disk.io = <<Access("write", "createRun",
                              join(runsDir(disk.dataDir), <<"r1.json">>))>>

\* this step is a call of enhanceAgentController
EnhanceStep == ctl'.enhances = ctl.enhances + 1

\* how often event e is in the log of the lifecycle call
CountOf(e) == Cardinality({i \in 1..Len(ctl.events) : ctl.events[i] = e})

\* C24: enhanceAgentController on a marked class that is not yet enhanced
\* makes each of the seven operations that was missing or carried the
\* not-implemented marker the default handler of that operation, without
\* the marker, and leaves each other operation the user's function.
C24_DefaultsInstalled ==
  [][(EnhanceStep /\ ctl.marked /\ ~ctl.enhanced) =>
       /\ DOMAIN ctl'.proto =
            {"createThread", "getThread", "asyncRun", "streamRun", "syncRun",
             "getRun", "cancelRun"}
       /\ \A n \in DOMAIN ctl'.proto :
            IF ctl.proto[n].fn = "none" \/ ctl.proto[n].notImplemented
            THEN /\ ctl'.proto[n].fn = "default"
                 /\ ctl'.proto[n].of = n
                 /\ ~ctl'.proto[n].notImplemented
            ELSE /\ ctl'.proto[n] = ctl.proto[n]
                 /\ ctl.proto[n].fn = "user"]_vars

\* a class with a user-defined syncRun, no createThread and stubs has been
\* enhanced
C24_Witness ==
  /\ ctl.enhanced
  /\ ctl.proto["syncRun"] = UserMethod("syncRun")
  /\ ctl.proto["createThread"] = DefaultMethod("createThread")
  /\ ctl.proto["cancelRun"] = DefaultMethod("cancelRun")
  /\ ctl.proto["getRun"] = DefaultMethod("getRun")

\* C25: enhanceAgentController on an enhanced class, or on a class without
\* the agent-controller marker, changes nothing of the class; init and
\* destroy are wrapped at most once, so a finished init call of an
\* enhanced class has obtained the store once and initialised it at most
\* once, and a class without the marker keeps its stubs and has no
\* wrapper.
C25_EnhanceOnce ==
  /\ [][(EnhanceStep /\ (ctl.enhanced \/ ~ctl.marked)) =>
          ctl' = [ctl EXCEPT !.enhances = @ + 1]]_vars
  /\ [](/\ ctl.initWraps <= 1
        /\ ctl.destroyWraps <= 1
        /\ (ctl.pc = "ready" /\ ctl.enhanced) =>
             /\ CountOf("obtain") = 1
             /\ CountOf("store.init") <= 1
             /\ CountOf("registry") = 1
             /\ ctl.storeInits = CountOf("store.init")
        /\ ~ctl.marked =>
             /\ ~ctl.enhanced
             /\ ctl.initWraps = 0 /\ ctl.destroyWraps = 0
             /\ \A n \in AGENT_METHOD_NAMES : ctl.proto[n].fn # "default")

\* the enhancer has been called twice on a marked class and init() of an
\* instance has finished
C25_Witness ==
  /\ ctl.marked
  /\ ctl.enhances = 2
  /\ ctl.pc = "ready"
  /\ ctl.store = "custom"
  /\ ctl.storeInits = 1

\* the events of a finished destroy() of an enhanced class, in order
C26_Expected ==
  (IF ctl.pending # {} THEN <<"settled">> ELSE <<>>)
  \o (IF ctl.store = "custom" THEN <<"store.destroy">> ELSE <<>>)
  \o (IF ctl.userDestroy THEN <<"user.destroy">> ELSE <<>>)

\* C26: the wrapped destroy goes on only when every task that was in the
\* registry when destroy started has settled, whatever its outcome; it
\* then destroys the store (when the store has a destroy) and then calls
\* the user's destroy; the store is not destroyed while one of those
\* tasks has not ended.
C26_DestroyWaits ==
  /\ [][(ctl.pc = "destroy_wait" /\ ctl'.pc # "destroy_wait") =>
          \A r \in ctl.pending : h[r].pc = "done"]_vars
  /\ [][(ctl.pc = "ready" /\ ctl'.pc \in {"destroy_wait", "destroy_store"})
          => ctl'.pending = runningTasks]_vars
  /\ [](/\ ctl.storeDestroyed =>
             \A r \in ctl.pending : h[r].pc = "done" /\ r \notin runningTasks
        /\ (ctl.pc = "destroyed" /\ ctl.destroyWraps > 0) =>
             ctl.events = C26_Expected)

\* destroy() has finished after waiting for a task that failed
C26_Witness ==
  /\ ctl.pc = "destroyed"
  /\ ctl.events = <<"settled", "store.destroy", "user.destroy">>
  /\ \E r \in ctl.pending : RunExists(r) /\ runs[r].status = "failed"

\* the events of a finished init() of an enhanced class, in order
C27_Expected ==
  <<"obtain">>
  \o (IF ctl.store \in {"file", "custom"} THEN <<"store.init">> ELSE <<>>)
  \o <<"registry">>
  \o (IF ctl.userInit THEN <<"user.init">> ELSE <<>>)

\* C27: the wrapped init obtains the store (from createStore when the
\* class has one, else a file store), calls the store's init when it has
\* one, creates an empty registry and then calls the user's init, which
\* sees an initialised store and an empty registry; a registry that holds
\* in-flight entries is never replaced.
C27_InitOrder ==
  /\ [](/\ (ctl.pc = "ready" /\ ctl.initWraps > 0) =>
             /\ ctl.events = C27_Expected
             /\ ctl.store = ctl.createStore
        /\ ctl.replaced = {})

\* C28: the handler of a run makes at most one terminal status update: it
\* does not write failed once its update to completed has been written,
\* also when the append to the thread that follows that update fails.
C28_OneTerminalUpdate ==
  [][\A r \in DOMAIN h :
       (h[r].pc = "fail_write" /\ h'[r].pc # "fail_write"
        /\ r \in DOMAIN runs /\ runs'[r] # runs[r])
         => ~h[r].wroteCompleted]_vars

\* the task of asyncRun call r has left its try block: it is at its
\* finally clause or has ended
TaskLeft(r) == IsAsync(r) /\ h[r].pc \in {"finally", "done"}

\* the step writes nothing to an existing thread
NoThreadWrite ==
  \A t \in DOMAIN threads : threads'[t] = threads[t]

\* C29: an asyncRun task whose token is aborted when it receives a chunk,
\* when its loop ends or when its catch clause is entered goes to its
\* finally clause: the chunk is not kept, updateRun(failed) is not
\* called, and from then on no step of the task writes a run or a thread
\* (only cancelRun writes the task's run).
C29_AbortObserved ==
  /\ [][\A r \in DOMAIN h :
          (IsAsync(r) /\ aborted[r] /\ h[r].pc = "exec" /\ h'[r] # h[r])
            => /\ h'[r].pc = "finally"
               /\ h'[r].streamMessages = h[r].streamMessages
               /\ runs' = runs
               /\ NoThreadWrite]_vars
  /\ [][\A r \in DOMAIN h :
          (IsAsync(r) /\ aborted[r] /\ h[r].pc # "fail_read")
            => h'[r].pc # "fail_read"]_vars
  /\ [][\A r \in DOMAIN h :
          TaskLeft(r)
            => /\ TaskLeft(r)'
               /\ h'[r].wroteCompleted = h[r].wroteCompleted
               /\ h'[r] # h[r] => (NoThreadWrite /\ runs' = runs)
               /\ (r \in DOMAIN runs /\ runs'[r] # runs[r])
                    => \E c \in DOMAIN cancels :
                         /\ cancels[c].pc = "upd_write"
                         /\ cancels'[c].pc = "done"
                         /\ cancels[c].run = r]_vars

\* an asyncRun task has discarded the chunk it received after the abort
\* and has ended without a terminal write of its own; cancelRun has
\* stored cancelled
C29_Witness ==
  \E r \in DOMAIN h :
    /\ IsAsync(r)
    /\ aborted[r]
    /\ h[r].discarded
    /\ h[r].pc = "done"
    /\ ~h[r].wroteCompleted
    /\ h[r].streamMessages = <<>>
    /\ Len(h[r].yieldedChunks) = 1
    /\ runs[r].status = "cancelled"

\* execRun has raised in the task of asyncRun call r, its token not aborted
AsyncExecFailed(r) ==
  /\ IsAsync(r)
  /\ h[r].err = ExecError
  /\ h[r].pc \in {"fail_read", "fail_write", "finally", "done"}

\* C30: when execRun raises in an asyncRun task whose token is not aborted,
\* the task calls updateRun(failed), whose write stores status failed
\* with last_error {EXEC_ERROR, the error's message}, and the record then
\* stays as it is; whether or not that update fails, the task goes to its
\* finally clause and ends with its registry entry removed; asyncRun's
\* caller has its queued run and never sees the error.
C30_AsyncExecError ==
  /\ [][\A r \in DOMAIN h :
          (IsAsync(r) /\ h[r].pc = "exec" /\ ~aborted[r]
           /\ h'[r].pc \notin {"exec", "comp_read"})
            => AsyncExecFailed(r)' /\ h'[r].pc = "fail_read"]_vars
  /\ [][\A r \in DOMAIN h :
          (AsyncExecFailed(r) /\ h[r].pc = "fail_write"
           /\ runs'[r] # runs[r])
            => /\ runs'[r].status = "failed"
               /\ runs'[r].last_error =
                    <<[code |-> "EXEC_ERROR", message |-> "exec failed"]>>
               /\ runs'[r].failed_at = h[r].stamp]_vars
  /\ [][\A r \in DOMAIN h :
          (AsyncExecFailed(r) /\ runs[r].status = "failed")
            => runs'[r] = runs[r]]_vars
  /\ [][\A r \in DOMAIN h :
          (AsyncExecFailed(r) /\ h'[r] # h[r])
            => /\ h[r].pc = "fail_read"
                    => h'[r].pc \in {"fail_write", "finally"}
               /\ h[r].pc = "fail_write" => h'[r].pc = "finally"
               /\ h[r].pc = "finally" =>
                    h'[r].pc = "done" /\ r \notin runningTasks'
               /\ h'[r].result = h[r].result]_vars
  /\ [](\A r \in DOMAIN h :
          AsyncExecFailed(r)
            => /\ h[r].result.type = "run"
               /\ h[r].result.run.status = "queued"
               /\ h[r].pc = "done" => r \notin runningTasks)

\* the task of an asyncRun has ended after execRun raised and the update to
\* failed was stored
C30_Witness ==
  \E r \in DOMAIN h :
    /\ AsyncExecFailed(r)
    /\ h[r].pc = "done"
    /\ runs[r].status = "failed"
    /\ runs[r].last_error # Unset
    /\ r \notin runningTasks

\* the frames of streamRun call r with the given event name
FramesOf(r, event) == SelectSeq(sse[r].frames, LAMBDA f : f.event = event)

\* C31: in streamRun the store is updated before the matching frame is
\* written: when the thread.run.in_progress frame is written the stored
\* run is in_progress with the started_at of the frame, when the
\* thread.run.completed frame is written the stored run is completed and
\* the thread holds the appended messages, and from then on a getRun of
\* that run sees status completed.
C31_StoreBeforeFrame ==
  /\ [][\A r \in DOMAIN h :
          (h[r].kind = "stream"
             /\ Len(FramesOf(r, "thread.run.in_progress"))' >
                  Len(FramesOf(r, "thread.run.in_progress")))
            => /\ r \in DOMAIN runs'
               /\ runs'[r].status = "in_progress"
               /\ runs'[r].started_at = h[r].startedAt
               /\ FramesOf(r, "thread.run.in_progress")'[1].data.started_at =
                    h[r].startedAt]_vars
  /\ [][\A r \in DOMAIN h :
          (h[r].kind = "stream"
             /\ Len(FramesOf(r, "thread.run.completed"))' >
                  Len(FramesOf(r, "thread.run.completed")))
            => /\ runs'[r].status = "completed"
               /\ h[r].threadId \in DOMAIN threads'
               /\ threads'[h[r].threadId].messages =
                    h[r].tsnap \o AppendedMessages(r)]_vars
  /\ [](\A r \in DOMAIN h :
          (h[r].kind = "stream"
             /\ Len(FramesOf(r, "thread.run.completed")) > 0)
            => runs[r].status = "completed")

\* the handler of streamRun call r has returned or rejected
StreamOver(r) ==
  /\ h[r].kind = "stream"
  /\ sse[r].headers
  /\ h[r].pc = "done"

\* C32: every streamRun call that has written the SSE headers writes
\* exactly one done frame, as its last frame, and then ends the response,
\* on every exit path: success, execRun failing, the client going away and
\* a store failure at any step.
C32_DoneOnEveryPath ==
  /\ [](\A r \in DOMAIN h :
          StreamOver(r)
            => /\ sse[r].ended
               /\ Len(FramesOf(r, "done")) = 1
               /\ sse[r].frames[Len(sse[r].frames)] = DoneFrame)
  /\ [][\A r \in DOMAIN h :
          sse[r].ended => sse'[r] = sse[r]]_vars
  /\ \A r \in RunIds :
       (h[r].kind = "stream" /\ sse[r].headers) ~> StreamOver(r)

\* the versions of the record that a readFile can return: the one that was
\* there at the start and those of the writeFile calls that have renamed
InstalledVersions ==
  {0} \cup {w \in WriterIds : disk.w[w].pc = "done"}

\* C33: a file store write is atomic for readers: the record file always
\* holds a whole version and stays present once it exists, a readFile
\* returns a whole version that was or has been installed (never a parse
\* error, and null only while the file is absent), and the temp files of
\* two writeFile calls in progress are different files, none of them the
\* record file.
C33_AtomicWrite ==
  /\ [](RunFile \in DOMAIN disk.names
          => disk.inodes[disk.names[RunFile]].whole)
  /\ [][(RunFile \in DOMAIN disk.names)
          => (RunFile \in DOMAIN disk'.names)]_vars
  /\ [](\A k \in ReaderIds :
          disk.rd[k].pc = "done"
            => \/ disk.rd[k].result = ReturnedNull
               \/ /\ disk.rd[k].result.type = "data"
                  /\ disk.rd[k].result.data \in InstalledVersions)
  /\ [][\A k \in ReaderIds :
          (disk.rd[k].pc # "done" /\ disk'.rd[k].pc = "done"
             /\ disk'.rd[k].result = ReturnedNull)
            => RunFile \notin DOMAIN disk.names]_vars
  /\ [](\A w \in WriterIds :
          disk.w[w].pc \in {"open", "written"}
            => /\ disk.w[w].tmpPath # RunFile
               /\ disk.w[w].tmpPath \in DOMAIN disk.names
               /\ disk.names[disk.w[w].tmpPath] = disk.w[w].fd
               /\ \A v \in WriterIds \ {w} :
                    disk.w[v].pc \in {"open", "written"}
                      => /\ disk.w[v].tmpPath # disk.w[w].tmpPath
                         /\ disk.w[v].fd # disk.w[w].fd)

\* a readFile that began while the record held an earlier version has
\* returned a whole version, while one writeFile has renamed and another
\* has its temp file open with only part of its text written
C33_Witness ==
  \E k \in ReaderIds, w, v \in WriterIds :
    /\ disk.rd[k].pc = "done"
    /\ disk.rd[k].result = [type |-> "data", data |-> 0]
    /\ disk.w[w].pc = "done"
    /\ disk.w[v].pc = "open"
    /\ ~disk.inodes[disk.w[v].fd].whole
    /\ disk.inodes[disk.names[RunFile]] = Content(w, TRUE)

\* the fields of a run record that createRun writes and no partial names
CreatedFields == {"id", "object", "created_at", "input"}

\* this step is a direct store.updateRun call that found its run
DirectUpdateStep ==
  /\ Len(replies'.got) = Len(replies.got) + 1
  /\ replies'.got[Len(replies'.got)].call = "updateRun"
  /\ replies'.got[Len(replies'.got)].result = ReturnedVoid

C35_Blocks(message) ==
  IF message.content.kind = "string"
  THEN <<[type |-> "text",
          text |-> [value |-> message.content.value, annotations |-> <<>>]]>>
  ELSE LET texts == SelectSeq(message.content.parts,
                              LAMBDA p : p.type = "text") IN
       [i \in 1..Len(texts) |->
          [type |-> "text",
           text |-> [value |-> texts[i].text, annotations |-> <<>>]]]

\* collect over the chunks that call r has drained
Collected(r) == extractFromStreamMessages(h[r].streamMessages, r)

\* C35: collect over a chunk sequence returns one output message per
\* chunk that has a message, in chunk order, each with role assistant,
\* status completed, the run id and the content blocks of that chunk's
\* message; a missing message gives no blocks, chunks with neither message
\* nor usage change nothing; this is the output a syncRun or asyncRun
\* stores as completed.
C35_Collect ==
  \A r \in DOMAIN h :
    LET chunks == h[r].streamMessages
        withMsg == SelectSeq(chunks, LAMBDA ch : ch.message # Unset)
        nonEmpty == SelectSeq(chunks, LAMBDA ch :
                                ch.message # Unset \/ ch.usage # Unset)
        out == Collected(r).output
    IN
    /\ Len(out) = Len(withMsg)
    /\ \A i \in 1..Len(out) :
         /\ out[i].role = "assistant"
         /\ out[i].status = "completed"
         /\ out[i].run_id = r
         /\ out[i].content = C35_Blocks(withMsg[i].message[1])
    /\ toContentBlocks(Unset) = <<>>
    /\ extractFromStreamMessages(nonEmpty, r) = Collected(r)
    /\ (h[r].kind \in {"sync", "async"} /\ RunExists(r)
          /\ runs[r].status = "completed")
         => runs[r].output = Some(out)

\* a syncRun has stored as completed the one assistant message of a chunk
\* whose message is a string with role system, drained together with a
\* chunk that has neither message nor usage
C35_Witness ==
  \E r \in DOMAIN h :
    /\ h[r].kind = "sync"
    /\ RunExists(r)
    /\ runs[r].status = "completed"
    /\ \E i \in 1..Len(h[r].streamMessages) :
         h[r].streamMessages[i] = Chunk(Unset, Unset)
    /\ \E i \in 1..Len(h[r].streamMessages) :
         /\ h[r].streamMessages[i].message # Unset
         /\ h[r].streamMessages[i].message[1].role = "system"
    /\ Len(runs[r].output[1]) = 1
    /\ runs[r].output[1][1].role = "assistant"
    /\ Len(runs[r].output[1][1].content) = 1

\* C36: in every stored run record the terminal timestamps agree with the
\* status: completed_at is set only when the status is completed,
\* failed_at only when failed, cancelled_at only when cancelled, at most
\* one of the three is set, output is set only when the status is
\* completed and last_error only when it is failed.
C36_TimestampsAgree ==
  \A r \in DOMAIN runs :
    /\ runs[r].completed_at # 0 => runs[r].status = "completed"
    /\ runs[r].failed_at # 0 => runs[r].status = "failed"
    /\ runs[r].cancelled_at # 0 => runs[r].status = "cancelled"
    /\ Cardinality({f \in {"completed_at", "failed_at", "cancelled_at"} :
                      runs[r][f] # 0}) <= 1
    /\ runs[r].output # Unset => runs[r].status = "completed"
    /\ runs[r].last_error # Unset => runs[r].status = "failed"

\* C37: every run record created by syncRun, asyncRun or streamRun has a
\* thread_id that identifies an existing thread record: for a thread_id
\* that names no thread no run record is created.
C37_RunHasThread ==
  \A r \in DOMAIN runs : runs[r].thread_id \in DOMAIN threads

\* cancelRun call c has come to its end, with a run or with an error
CancelOver(c) == cancels[c].pc = "done"

\* C38: a cancelRun that found its run registered comes to its end, given
\* that the generator keeps answering after the abort; while it waits for
\* the task it has read and written nothing in the store, it resumes only
\* when the task has settled, and the registry entry of the run is gone
\* at every store read and write it then makes.
C38_CancelTerminates ==
  /\ \A c \in LiveCancelIds : cancels[c].awaited ~> CancelOver(c)
  /\ [](\A c \in DOMAIN cancels :
          cancels[c].pc = "wait"
            => /\ cancels[c].awaited
               /\ cancels[c].snap = EmptyRun
               /\ cancels[c].result = NoResult)
  /\ [][\A c \in DOMAIN cancels :
          (cancels[c].pc = "wait" /\ cancels'[c] # cancels[c])
            => /\ h[cancels[c].run].pc = "done"
               /\ cancels[c].run \notin runningTasks
               /\ cancels'[c].pc = "read"
               /\ runs' = runs
               /\ threads' = threads]_vars
  /\ [][\A c \in DOMAIN cancels :
          (cancels[c].awaited /\ cancels[c].pc # "wait"
             /\ cancels'[c] # cancels[c])
            => /\ cancels[c].run \notin runningTasks
               /\ h[cancels[c].run].pc = "done"]_vars

\* a cancelRun that waited for a task which was draining its generator has
\* returned the run as cancelled, the task having dropped a chunk
C38_Witness ==
  \E c \in DOMAIN cancels :
    /\ cancels[c].awaited
    /\ CancelOver(c)
    /\ cancels[c].result.type = "run"
    /\ cancels[c].statusAtCall = "in_progress"
    /\ h[cancels[c].run].discarded
    /\ cancels[c].run \notin runningTasks

\* cancelRun calls c and d are on the same run and overlap: each began
\* before the other was over, the run being live at both calls
Overlapping(c, d) ==
  /\ c # d
  /\ cancels[c].pc # "idle" /\ cancels[d].pc # "idle"
  /\ cancels[c].run = cancels[d].run
  /\ cancels[c].statusAtCall \in {"queued", "in_progress"}
  /\ cancels[d].statusAtCall \in {"queued", "in_progress"}

\* C39: when two cancelRun calls for the same live run overlap, exactly one
\* of them writes cancelled and returns the run as cancelled and the other
\* fails with the terminal-status error (no store call failing);
\* cancelled_at is written once.
C39_OneCancelWins ==
  /\ [](\A c, d \in DOMAIN cancels :
          (Overlapping(c, d) /\ CancelReturned(c) /\ cancels[d].pc = "done"
             /\ ~CancelStoreFailed(d))
            => cancels[d].result = Raised(CannotCancel("cancelled")))
  /\ [][\A c \in DOMAIN cancels :
          (cancels[c].pc = "upd_write" /\ cancels'[c].result.type = "run")
            => runs[cancels[c].run].cancelled_at = 0]_vars

\* syncRun call s and streamRun call t have both succeeded on the same
\* input and the same chunk sequence
Twins(s, t) ==
  /\ SyncReturned(s)
  /\ StreamSucceeded(t)
  /\ h[s].input = h[t].input
  /\ h[s].yieldedChunks = h[t].yieldedChunks

\* the content blocks of a list of messages, one after the other
RECURSIVE ConcatContent(_)
ConcatContent(msgs) ==
  IF msgs = <<>> THEN <<>>
  ELSE Head(msgs).content \o ConcatContent(Tail(msgs))

\* the messages call r has appended to its own new thread before its
\* output, without the thread id
InputsAppended(r) ==
  LET all == threads[h[r].threadId].messages
      n == Len(all) - Len(runs[r].output[1])
  IN [i \in 1..n |-> [all[i] EXCEPT !.thread_id = 0]]

\* what syncRun and streamRun agree on whatever the chunks are: status,
\* usage, and the input messages appended before the output
AgreeOnRun(s, t) ==
  /\ runs[s].status = "completed"
  /\ runs[t].status = "completed"
  /\ runs[s].usage = runs[t].usage
  /\ h[s].result.run.usage = runs[t].usage
  /\ InputsAppended(s) = InputsAppended(t)
  /\ \A i \in 1..Len(InputsAppended(s)) : InputsAppended(s)[i].role # "system"
  /\ Len(InputsAppended(s)) = Len(NonSystem(h[s].input))
  /\ IsSuffix(runs[s].output[1], threads[h[s].threadId].messages)
  /\ IsSuffix(runs[t].output[1], threads[h[t].threadId].messages)

\* C40 as stated: for the same input and the same chunk sequence, with no
\* failure, cancellation or disconnect, syncRun and streamRun store the
\* same status and usage, the concatenation of the content blocks of
\* syncRun's output messages is the content of streamRun's single output
\* message, and both append the same non-system input messages to the
\* thread before the output.
C40_SyncStreamAgree ==
  \A s, t \in DOMAIN h :
    Twins(s, t) =>
      /\ AgreeOnRun(s, t)
      /\ Len(runs[t].output[1]) = 1
      /\ runs[t].output[1][1].content = ConcatContent(runs[s].output[1])

\* C40 amended: ... the concatenation of the content blocks of syncRun's
\* output messages is the content of streamRun's single output message
\* when it has at least one block; when it has none streamRun's output is
\* the empty list, whatever the number of syncRun's output messages.
C40_SyncStreamAgreeOnBlocks ==
  \A s, t \in DOMAIN h :
    Twins(s, t) =>
      /\ AgreeOnRun(s, t)
      /\ LET blocks == ConcatContent(runs[s].output[1]) IN
         IF blocks # <<>>
         THEN /\ Len(runs[t].output[1]) = 1
              /\ runs[t].output[1][1].content = blocks
         ELSE runs[t].output[1] = <<>>

\* a syncRun and a streamRun have succeeded on the same input and the same
\* two chunks, one with a text part and usage and one with an image part
\* only: syncRun's output has two messages, streamRun's one, with the
\* same usage
C40_Witness ==
  \E s, t \in DOMAIN h :
    /\ Twins(s, t)
    /\ Len(h[s].yieldedChunks) = 2
    /\ Len(runs[s].output[1]) = 2
    /\ Len(runs[t].output[1]) = 1
    /\ runs[t].output[1][1].content = ConcatContent(runs[s].output[1])
    /\ runs[s].usage # Unset
    /\ runs[s].usage = runs[t].usage
    /\ Len(InputsAppended(t)) = 2

====
